---- MODULE Spec2Model ----
(***************************************************************************)
(* Verification model of the Thai bank-statement pipeline:                 *)
(*   - ThaiSalaryAnalyzer (src/src/infrastructure/analysis/thai_analyzer.py)*)
(*   - the per-bank line parsers (src/src/infrastructure/pdf/*_extractor.py)*)
(*   - BankDetector (src/src/infrastructure/pdf/bank_detector.py)          *)
(*                                                                         *)
(* Conventions.                                                            *)
(*  Money is an integer number of satang (1 THB = 100 satang); Python      *)
(*  floats are replaced by this fixed-point representation, divisions      *)
(*  truncate.  None is the string "None" where the value is otherwise a    *)
(*  string; an Optional[float] is <<>> (None) or <<v>>; a None string that *)
(*  is otherwise a tuple of pieces is <<>>.                                *)
(*  Text that only occurs as literals keeps an ASCII transliteration of    *)
(*  the Thai literal; the Thai original is given where it is introduced.   *)
(*  A date string is the tuple of its pieces <<day, sep, month, sep, year>>*)
(*  ("05/01/2025" is <<"05","/","01","/","2025">>), the empty string is    *)
(*  <<>>.                                                                  *)
(*  The parsers build Transaction(..., date=...) and the analyzer reads    *)
(*  tx.date; the model follows these uses (the dataclass in                *)
(*  domain/entities/transaction.py declares no date field).                *)
(***************************************************************************)
EXTENDS Integers, Sequences, FiniteSets, TLC

None == "None"
\* Optional[float]
NoValue == <<>>
Some(v) == <<v>>
Val(o) == o[1]

Min(a, b) == IF a <= b THEN a ELSE b
Max(a, b) == IF a >= b THEN a ELSE b
Abs(a) == IF a < 0 THEN 0 - a ELSE a

\* baht to satang: amounts are kept with the two decimals of the statements
THB(x) == x * 100

(***************************************************************************)
(* ThaiSalaryAnalyzer: constants                                           *)
(***************************************************************************)
\* upper bound of the last bracket, float('inf')
INF == 2147483647

\* (lower, upper, rate) with the rate in twentieths (0.05 = 1/20)
TAX_BRACKETS ==
  << <<THB(0), THB(150000), 0>>,
     <<THB(150000), THB(300000), 1>>,
     <<THB(300000), THB(500000), 2>>,
     <<THB(500000), THB(750000), 3>>,
     <<THB(750000), THB(1000000), 4>>,
     <<THB(1000000), THB(2000000), 5>>,
     <<THB(2000000), THB(5000000), 6>>,
     <<THB(5000000), INF, 7>> >>

SSO_RATE == 5
SSO_MAX == 75000
PERSONAL_ALLOWANCE == 6000000
EMPLOYMENT_EXPENSE_MAX == 10000000
MIN_MONTHS_REQUIRED == 3
IDEAL_MONTHS_REQUIRED == 5
RECURRENCE_SCORE == 6
SOURCE_CONSISTENCY_SCORE == 5
AMOUNT_STABILITY_SCORE == 4
PAYROLL_TIME_SCORE == 2
KEYWORD_SCORE == 2
NOT_EXCLUDED_SCORE == 1

\* x * k/20 and x * p/100 without leaving 32 bits
MulTwentieth(x, k) == (x \div 20) * k + ((x % 20) * k) \div 20
MulPct(x, p) == (x \div 100) * p + ((x % 100) * p) \div 100

(***************************************************************************)
(* Tax model                                                               *)
(***************************************************************************)
RECURSIVE calculate_tax_from(_, _, _)
calculate_tax_from(k, remaining, total_tax) ==
  IF k > Len(TAX_BRACKETS) \/ remaining <= 0 THEN total_tax
  ELSE LET lower == TAX_BRACKETS[k][1]
           upper == TAX_BRACKETS[k][2]
           rate == TAX_BRACKETS[k][3]
           bracket_amount == Min(remaining, upper - lower)
           bracket_tax == MulTwentieth(bracket_amount, rate)
       IN calculate_tax_from(k + 1, remaining - bracket_amount, total_tax + bracket_tax)

\* variant: the first bracket taxed at 5% as well
calculate_tax_no_exempt(taxable_income) ==
  MulTwentieth(Min(taxable_income, TAX_BRACKETS[1][2]), 1) + calculate_tax_from(1, taxable_income, 0)
\* variant: the rate of the bracket the income falls in, applied to all of it
calculate_tax_slab(taxable_income) ==
  LET k == CHOOSE j \in 1..Len(TAX_BRACKETS) :
             TAX_BRACKETS[j][1] <= taxable_income /\ taxable_income < TAX_BRACKETS[j][2]
  IN MulTwentieth(taxable_income, TAX_BRACKETS[k][3])
calculate_tax(taxable_income) == calculate_tax_from(1, taxable_income, 0)

calculate_taxable_income(annual_gross, pvd_rate, extra_deductions) ==
  LET pvd_deduction == MulPct(annual_gross, pvd_rate)
      employment_expense == Min(annual_gross \div 2, EMPLOYMENT_EXPENSE_MAX)
      total_deductions == PERSONAL_ALLOWANCE + employment_expense + pvd_deduction + extra_deductions
  IN Max(annual_gross - total_deductions, 0)

\* gross -> net, as computed inside the bisection loop and again by analyze
calculated_net(gross, pvd_rate, extra_deductions) ==
  LET annual_gross == gross * 12
      taxable == calculate_taxable_income(annual_gross, pvd_rate, extra_deductions)
      annual_tax == calculate_tax(taxable)
      monthly_tax == annual_tax \div 12
      monthly_sso == Min(MulPct(gross, SSO_RATE), SSO_MAX)
      monthly_pvd == MulPct(gross, pvd_rate)
  IN gross - monthly_tax - monthly_sso - monthly_pvd

BisectTolerance == 1000
BisectMaxIterations == 50

RECURSIVE bisect(_, _, _, _, _, _)
bisect(iter, lower_gross, upper_gross, monthly_net, pvd_rate, extra_deductions) ==
  IF iter >= BisectMaxIterations THEN (lower_gross + upper_gross) \div 2
  ELSE LET mid_gross == (lower_gross + upper_gross) \div 2
           net == calculated_net(mid_gross, pvd_rate, extra_deductions)
       IN IF Abs(net - monthly_net) < BisectTolerance THEN mid_gross
          ELSE IF net > monthly_net
               THEN bisect(iter + 1, lower_gross, mid_gross, monthly_net, pvd_rate, extra_deductions)
               ELSE bisect(iter + 1, mid_gross, upper_gross, monthly_net, pvd_rate, extra_deductions)

gross_from_net(monthly_net, pvd_rate, extra_deductions) ==
  bisect(0, monthly_net, monthly_net * 2, monthly_net, pvd_rate, extra_deductions)


(***************************************************************************)
(* Transactions seen by the analyzer                                       *)
(***************************************************************************)
\* Descriptions used in the analysed statements and what the analyzer's
\* pattern matches give on each of them:
\*   "Transfer from ACME"  plain credit text
\*   "SALARY (BSD02)"      matches SALARY_KEYWORDS, carries a (CODE)
\*   "RUAM FAK NGOEN"      the summary row text (Thai: รวมฝากเงิน), contains รวม
\*   "TrueMoney Wallet"    matches EXCLUSION_PATTERNS (re.I)
DescPlain == "Transfer from ACME"
DescCode == "SALARY (BSD02)"
DescSummary == "RUAM FAK NGOEN"
DescWallet == "TrueMoney Wallet"

\* Transaction.has_keyword(SALARY_KEYWORDS): re.search, case-sensitive
has_keyword(tx) == tx.description \in {DescCode}
\* Transaction.is_excluded(EXCLUSION_PATTERNS): re.search with re.I
is_excluded(tx) == tx.description \in {DescWallet}
\* "รวม" in tx.description
HasSummaryMarker(description) == description \in {DescSummary}
\* employer.lower() in tx.description.lower()
MentionsEmployer(employer, tx) ==
  \/ employer = "acme" /\ tx.description \in {DescPlain}
  \/ employer = "ACME" /\ tx.description \in {DescPlain}

\* re.sub(r'[^\u0E00-\u0E7Fa-zA-Z0-9]', '', tx.payer.upper())
NormalizedPayer(payer) ==
  CASE payer = "ACME CO." -> "ACMECO"
    [] payer = "Acme Co" -> "ACMECO"
    [] payer = "Bob" -> "BOB"
    [] payer = "--" -> ""
    [] OTHER -> payer

\* the description branch of _normalize_source: (CODE) first, then the first
\* word of at least 3 characters that is not numeric, else UNKNOWN
DescriptionSource(description) ==
  CASE description = DescCode -> "BSD02"
    [] description = DescPlain -> "FROM"
    [] description = DescSummary -> "RUAM"
    [] description = DescWallet -> "TRUEMONEY"
    [] OTHER -> "UNKNOWN"

\* variant: the payer is ignored and the description alone names the source
normalize_source_description_only(tx) == DescriptionSource(tx.description)

normalize_source(tx) ==
  IF tx.payer # None /\ tx.payer # ""
  THEN LET normalized == NormalizedPayer(tx.payer)
       IN IF normalized = "" THEN "UNKNOWN" ELSE normalized
  ELSE DescriptionSource(tx.description)

\* int() of a two-digit year
TwoDigit == [y \in {"24", "25", "49", "50", "67", "68"} |->
              CASE y = "24" -> 24 [] y = "25" -> 25 [] y = "49" -> 49
                [] y = "50" -> 50 [] y = "67" -> 67 [] y = "68" -> 68]

\* 2-digit years: >= 50 -> 25YY, else 26YY
ExpandYear(year) ==
  IF Len(year) = 2
  THEN (IF TwoDigit[year] >= 50 THEN "25" ELSE "26") \o year
  ELSE year

\* month.zfill(2) on the one- and two-digit months of the statements
zfill2(month) == IF Len(month) = 1 THEN "0" \o month ELSE month

\* salaried path: re.search(r'(\d{1,2})[/-](\d{1,2})(?:[/-](\d{2,4}))?', date);
\* the key exists only when the year group matched
SalariedMonthKey(date) ==
  IF Len(date) = 5 THEN <<ExpandYear(date[5]), zfill2(date[3])>> ELSE <<>>

\* self-employed path: date.replace("-", "/").split("/") must give 3 parts
SelfEmployedMonthKey(date) ==
  IF Len(date) = 5 THEN <<ExpandYear(date[5]), zfill2(date[3])>> ELSE <<>>

\* variant: debits are kept
get_credit_transactions_all(transactions) == transactions

\* Statement.get_credit_transactions
get_credit_transactions(transactions) == SelectSeq(transactions, LAMBDA t : t.is_credit)

(***************************************************************************)
(* Grouping and scoring                                                    *)
(***************************************************************************)
RECURSIVE SeqSum(_)
SeqSum(s) == IF s = <<>> THEN 0 ELSE Head(s) + SeqSum(Tail(s))

Amounts(txs) == [k \in 1..Len(txs) |-> txs[k].amount]

\* statistics.median: middle element, or the mean of the two middle ones
median(values) ==
  LET sorted == SortSeq(values, LAMBDA a, b : a < b)
      n == Len(sorted)
  IN IF n % 2 = 1 THEN sorted[(n + 1) \div 2]
     ELSE (sorted[n \div 2] + sorted[n \div 2 + 1]) \div 2

\* _amount_stability as the pair (mad, median); the ratio mad / median is
\* compared by cross-multiplication.  <<0, 1>> is 0.0, <<1, 0>> is inf.
amount_stability(amounts) ==
  IF Len(amounts) < 2 THEN <<0, 1>>
  ELSE LET med == median(amounts)
       IN IF med = 0 THEN <<1, 0>>
          ELSE LET deviations == [k \in 1..Len(amounts) |-> Abs(amounts[k] - med)]
               IN <<median(deviations), med>>

\* stability <= pct/100
StabilityAtMost(stab, pct) == stab[2] # 0 /\ stab[1] * 100 <= pct * stab[2]

\* int(tx.time.split(":")[0]) for the times of the statements
HourOf(time) ==
  CASE time = "05:27" -> 5
    [] time = "14:00" -> 14
    [] OTHER -> 0

is_payroll_time(tx) ==
  IF tx.time = None \/ tx.time = "" THEN FALSE
  ELSE 0 <= HourOf(tx.time) /\ HourOf(tx.time) <= 6

\* variant: the keys visited in last-encounter-first order
SourceKeys_reversed(credits) ==
  LET firsts == SelectSeq([k \in 1..Len(credits) |-> k],
                  LAMBDA k : \A j \in 1..(k - 1) :
                    normalize_source(credits[j]) # normalize_source(credits[k]))
  IN [i \in 1..Len(firsts) |-> normalize_source(credits[firsts[Len(firsts) + 1 - i]])]

\* the keys of source_groups in first-encounter order (dict insertion order)
SourceKeys(credits) ==
  LET firsts == SelectSeq([k \in 1..Len(credits) |-> k],
                  LAMBDA k : \A j \in 1..(k - 1) :
                    normalize_source(credits[j]) # normalize_source(credits[k]))
  IN [i \in 1..Len(firsts) |-> normalize_source(credits[firsts[i]])]

group_by_source(credits, source) ==
  SelectSeq(credits, LAMBDA t : normalize_source(t) = source)

score_salary_group(transactions, employer) ==
  LET n == Len(transactions)
      recurrence == IF n >= 6 THEN RECURRENCE_SCORE
                    ELSE IF n >= IDEAL_MONTHS_REQUIRED THEN RECURRENCE_SCORE - 1
                    ELSE IF n >= MIN_MONTHS_REQUIRED THEN RECURRENCE_SCORE - 2
                    ELSE 0
      amounts == Amounts(transactions)
      stability == amount_stability(amounts)
      stable == IF StabilityAtMost(stability, 3) THEN AMOUNT_STABILITY_SCORE
                ELSE IF StabilityAtMost(stability, 5) THEN AMOUNT_STABILITY_SCORE - 1
                ELSE 0
      total == SeqSum(amounts)
      magnitude == IF n = 0 THEN -5
                   ELSE IF total >= THB(50000) * n THEN 8
                   ELSE IF total >= THB(20000) * n THEN 5
                   ELSE IF total >= THB(10000) * n THEN 3
                   ELSE IF total < THB(1000) * n THEN -5
                   ELSE 0
      payroll_count == Cardinality({k \in 1..n : is_payroll_time(transactions[k])})
      payroll == IF 2 * payroll_count >= n THEN PAYROLL_TIME_SCORE ELSE 0
      keyword == IF \E k \in 1..n : has_keyword(transactions[k]) THEN KEYWORD_SCORE ELSE 0
      not_excluded == IF \A k \in 1..n : ~is_excluded(transactions[k])
                      THEN NOT_EXCLUDED_SCORE ELSE 0
      emp == IF employer # None /\ employer # ""
                /\ \E k \in 1..n : MentionsEmployer(employer, transactions[k])
             THEN 3 ELSE 0
  IN recurrence + SOURCE_CONSISTENCY_SCORE + stable + magnitude + payroll
       + keyword + not_excluded + emp

\* distinct year-month keys of a group (dated transactions with a year)
UniqueMonths(txs) ==
  {SalariedMonthKey(txs[k].date) : k \in {j \in 1..Len(txs) : SalariedMonthKey(txs[j].date) # <<>>}}

\* the loop over source_groups.items(): keeps the first group whose score is
\* strictly above the best so far (best_score starts at 0)
RECURSIVE best_group_from(_, _, _, _, _)
best_group_from(keys, k, credits, employer, best) ==
  IF k > Len(keys) THEN best
  ELSE LET txs == group_by_source(credits, keys[k])
           score == score_salary_group(txs, employer)
           best_score == IF best.found THEN best.score ELSE 0
       IN IF Len(txs) < MIN_MONTHS_REQUIRED \/ ~(score > best_score)
          THEN best_group_from(keys, k + 1, credits, employer, best)
          ELSE best_group_from(keys, k + 1, credits, employer,
                 [found |-> TRUE, source |-> keys[k], transactions |-> txs, score |-> score,
                  months_detected |-> Cardinality(UniqueMonths(txs))])

\* best_group = None
NoGroup == [found |-> FALSE]

detect_monthly_salary_net(credits, employer) ==
  LET best_group == best_group_from(SourceKeys(credits), 1, credits, employer, NoGroup)
  IN IF ~best_group.found THEN NoGroup
     ELSE [found |-> TRUE, source |-> best_group.source,
           transactions |-> best_group.transactions,
           score |-> best_group.score,
           months_detected |-> best_group.months_detected,
           monthly_net_median |-> median(Amounts(best_group.transactions))]


(***************************************************************************)
(* SalaryAnalysis results                                                  *)
(***************************************************************************)
\* round(x / d) to the nearest integer, ties to even (Python round / format)
RoundDiv(x, d) ==
  LET q == x \div d
      r == x % d
  IN IF 2 * r < d THEN q
     ELSE IF 2 * r > d THEN q + 1
     ELSE IF q % 2 = 0 THEN q ELSE q + 1

\* (diff_amount / expected_gross) * 100 formatted with one decimal, in tenths
\* of a percent; expected_gross # 0
RECURSIVE Digits(_, _, _)
Digits(r, e, k) == IF k = 0 THEN 0 ELSE ((r * 10) \div e) * (IF k = 3 THEN 100 ELSE IF k = 2 THEN 10 ELSE 1)
                                     + Digits((r * 10) % e, e, k - 1)
DiffPct(diff_amount, expected_gross) ==
  LET m == Abs(diff_amount)
      e == Abs(expected_gross)
      tenths == (m \div e) * 1000 + Digits(m % e, e, 3)
  IN IF (diff_amount < 0) = (expected_gross < 0) THEN tenths ELSE 0 - tenths

\* the f-strings, as the tuple of their literal pieces and formatted values
NoReason == <<>>
ReasonNoPattern == <<"No recurring salary pattern detected">>
ReasonInsufficient(months) == <<"Insufficient data: only", months, "months detected (required: 6)">>
ReasonSalaryMismatch(detected, expected, pct) ==
  <<"Salary mismatch: detected", detected, "vs expected", expected, "(diff:", pct, "%)">>
ReasonIncomeMismatch(detected, expected, pct) ==
  <<"Income mismatch: detected", detected, "vs expected", expected, "(diff:", pct, "%)">>
ReasonLowConfidence == <<"Low confidence in detection">>
ReasonNoDated == <<"No dated transactions found for averaging">>
ReasonNotHigh == <<"Insufficient months for approval">>

Take(s, k) == SubSeq(s, 1, Min(k, Len(s)))

SalaryAnalysis(detected_amount, confidence, income_type, transactions_analyzed, clusters_found, best_candidates, expected_salary, months_detected, approved, rejection_reason) ==
  [detected_amount |-> detected_amount, confidence |-> confidence,
   income_type |-> income_type, transactions_analyzed |-> transactions_analyzed,
   clusters_found |-> clusters_found, best_candidates |-> best_candidates,
   expected_salary |-> expected_salary, months_detected |-> months_detected,
   approved |-> approved, rejection_reason |-> rejection_reason]

\* what a call leaves behind: a returned SalaryAnalysis or a raised exception
Pending == [kind |-> "pending"]
Returned(r) == [kind |-> "returned", value |-> r]
Raised(e) == [kind |-> "raised", error |-> e]

(***************************************************************************)
(* analyze, salaried path (thai_analyzer.py lines 99-185)                  *)
(***************************************************************************)
\* variant: "high" from MIN_MONTHS_REQUIRED months on
salaried_confidence_high_at_min(months, monthly_net, estimated_gross, pvd_rate, extra_deductions) ==
  LET net_again == calculated_net(estimated_gross, pvd_rate, extra_deductions)
      num == Abs(net_again - monthly_net)
      den == Max(THB(1), monthly_net)
  IN IF months >= MIN_MONTHS_REQUIRED /\ num * 100 <= 3 * den THEN "high"
     ELSE IF months >= MIN_MONTHS_REQUIRED /\ num * 100 <= 6 * den THEN "medium"
     ELSE "low"

salaried_confidence(months, monthly_net, estimated_gross, pvd_rate, extra_deductions) ==
  LET net_again == calculated_net(estimated_gross, pvd_rate, extra_deductions)
      num == Abs(net_again - monthly_net)
      den == Max(THB(1), monthly_net)
  IN IF months >= IDEAL_MONTHS_REQUIRED /\ num * 100 <= 3 * den THEN "high"
     ELSE IF months >= MIN_MONTHS_REQUIRED /\ num * 100 <= 6 * den THEN "medium"
     ELSE "low"

\* Rule 1 (line 154): fewer than 6 months
months_insufficient_5(months_detected) == months_detected < 5
months_insufficient(months_detected) == months_detected < 6

\* Rule 2 (line 159): within 5,000 THB of the expected figure
matches_expected_wide(estimated_gross, expected) == Abs(estimated_gross - expected) < THB(50000)
matches_expected_gross(estimated_gross, expected) == Abs(estimated_gross - expected) < THB(5000)

\* Rule 3 (line 169)
approved_by_confidence_high_only(confidence) == confidence \in {"high"}
approved_by_confidence(confidence) == confidence \in {"high", "medium"}

\* lines 170-171
low_confidence_reason_unset(approved) == NoReason
low_confidence_reason(approved) == IF ~approved THEN ReasonLowConfidence ELSE NoReason

\* lines 141-185: confidence, approval rules and the returned SalaryAnalysis
salaried_result(credits, expected_gross, detected, estimated_gross, pvd_rate, extra_deductions) ==
  LET months_detected == IF ~detected.found THEN 0 ELSE detected.months_detected
      confidence == IF ~detected.found THEN "low"
                    ELSE salaried_confidence(detected.months_detected,
                           detected.monthly_net_median, estimated_gross,
                           pvd_rate, extra_deductions)
      candidates == IF ~detected.found THEN <<>> ELSE Take(detected.transactions, 10)
      clusters == IF ~detected.found THEN 0 ELSE 1
      Result(approved, reason) ==
        Returned(SalaryAnalysis(estimated_gross, confidence, "SALARIED", Len(credits),
                                clusters, candidates, expected_gross, months_detected,
                                approved, reason))
  IN IF months_insufficient(months_detected)
     THEN Result(FALSE, ReasonInsufficient(months_detected))
     ELSE IF expected_gross # NoValue
     THEN IF matches_expected_gross(estimated_gross, Val(expected_gross))
          THEN Result(TRUE, NoReason)
          ELSE IF Val(expected_gross) = 0
               THEN Raised("ZeroDivisionError")
               ELSE Result(FALSE, ReasonSalaryMismatch(estimated_gross, Val(expected_gross),
                             DiffPct(estimated_gross - Val(expected_gross), Val(expected_gross))))
     ELSE Result(approved_by_confidence(confidence),
                 low_confidence_reason(approved_by_confidence(confidence)))

\* lines 99-139: detection, the no-pattern branch and the gross estimate
analyze_salaried(credits, expected_gross, employer, pvd_rate, extra_deductions) ==
  LET truthy == expected_gross # NoValue /\ Val(expected_gross) # 0
      results ==
        {IF ~detected.found /\ ~truthy
         THEN Returned(SalaryAnalysis(0, "low", "SALARIED", Len(credits), 0, <<>>,
                                      expected_gross, 0, FALSE, ReasonNoPattern))
         ELSE CHOOSE r \in
                {salaried_result(credits, expected_gross, detected, estimated_gross,
                                 pvd_rate, extra_deductions) :
                   estimated_gross \in
                     {IF ~detected.found THEN Val(expected_gross)
                      ELSE gross_from_net(detected.monthly_net_median, pvd_rate,
                                          extra_deductions)}} : TRUE
           : detected \in {detect_monthly_salary_net(credits, employer)}}
  IN CHOOSE r \in results : TRUE

(***************************************************************************)
(* _calculate_self_employed_income (thai_analyzer.py lines 187-293)        *)
(***************************************************************************)
self_employed_confidence(months_detected) ==
  IF months_detected >= 6 THEN "high"
  ELSE IF months_detected >= 4 THEN "medium"
  ELSE "low"

calculate_self_employed_income(credits, expected_gross) ==
  LET filtered_credits == SelectSeq(credits,
                            LAMBDA t : t.date # <<>> /\ ~HasSummaryMarker(t.description))
      counted == SelectSeq(filtered_credits, LAMBDA t : SelfEmployedMonthKey(t.date) # <<>>)
      month_keys == {SelfEmployedMonthKey(counted[k].date) : k \in 1..Len(counted)}
      months_detected == Cardinality(month_keys)
      total_income == SeqSum(Amounts(counted))
  IN IF months_detected = 0
     THEN Returned(SalaryAnalysis(0, "low", "SELF_EMPLOYED", Len(credits), 0, <<>>,
                                  expected_gross, 0, FALSE, ReasonNoDated))
     ELSE
       LET confidence == self_employed_confidence(months_detected)
           \* round(average_monthly, 2); the comparisons below use the
           \* unrounded total_income / months_detected
           detected_amount == RoundDiv(total_income, months_detected)
           Result(approved, reason) ==
             Returned(SalaryAnalysis(detected_amount, confidence, "SELF_EMPLOYED", Len(credits),
                                     months_detected, Take(credits, 10), expected_gross,
                                     months_detected, approved, reason))
       IN IF months_detected < 6
          THEN Result(FALSE, ReasonInsufficient(months_detected))
          ELSE IF expected_gross # NoValue
          THEN IF Abs(total_income - Val(expected_gross) * months_detected) < THB(5000) * months_detected
               THEN Result(TRUE, NoReason)
               ELSE IF Val(expected_gross) = 0
                    THEN Raised("ZeroDivisionError")
                    ELSE Result(FALSE, ReasonIncomeMismatch(detected_amount, Val(expected_gross),
                                  DiffPct(detected_amount - Val(expected_gross), Val(expected_gross))))
          ELSE IF confidence = "high"
               THEN Result(TRUE, NoReason)
               ELSE Result(FALSE, ReasonNotHigh)


(***************************************************************************)
(* Statement pages read by the PDF extractors                              *)
(*                                                                         *)
(* A page is the list of its text lines.  Thai text is written in          *)
(* transliteration and the comments give the original.  A regular          *)
(* expression, a substring test or a string split of the source is given   *)
(* by its result on the lines of the modelled pages.                       *)
(***************************************************************************)
\* lines[k] and lines[a:b] with the 0-based indices of the source
At(lines, k) == lines[k + 1]
Slice(lines, a, b) == SubSeq(lines, a + 1, b)

\* F applied to the value of e
Bind(e, F(_)) == CHOOSE r \in {F(v) : v \in {e}} : TRUE

\* where `while k < n and not Stop(lines[k]): k += 1` leaves k, from k = from
ScanTo(lines, from, Stop(_)) ==
  CHOOSE k \in from..Len(lines) :
    /\ (k = Len(lines) \/ Stop(At(lines, k)))
    /\ \A j \in from..(k - 1) : ~Stop(At(lines, j))

\* " ".join(parts)
RECURSIVE Join(_)
Join(parts) ==
  IF Len(parts) = 0 THEN ""
  ELSE IF Len(parts) = 1 THEN Head(parts)
  ELSE Head(parts) \o " " \o Join(Tail(parts))

\* s or None
OrNone(s) == IF s = "" THEN None ELSE s

\* float(money_str.replace(",", "")), in satang
parse_money(money_str) ==
  CASE money_str = "0.00" -> 0
    [] money_str = "10.00" -> 1000
    [] money_str = "38.89" -> 3889
    [] money_str = "452.63" -> 45263
    [] money_str = "1,000.00" -> 100000
    [] money_str = "10,000.00" -> 1000000
    [] money_str = "10,452.63" -> 1045263
    [] money_str = "25,000.00" -> 2500000
    [] money_str = "29,361.01" -> 2936101
    [] money_str = "35,000.00" -> 3500000
    [] money_str = "35,038.89" -> 3503889
    [] money_str = "35,452.63" -> 3545263
    [] money_str = "84,150.00" -> 8415000
    [] money_str = "100,421.94" -> 10042194

\* the groups (day, month, year) of the date expressions, with the separator
\* of the line, as <<day, sep, month, sep, year>>
DatePieces(line) ==
  CASE line = "01-04-25" -> <<"01", "-", "04", "-", "25">>
    [] line = "02-04-25" -> <<"02", "-", "04", "-", "25">>
    [] line = "24/10/68" -> <<"24", "/", "10", "/", "68">>
    [] line = "01/02/25" -> <<"01", "/", "02", "/", "25">>
    [] line = "01/02/68" -> <<"01", "/", "02", "/", "68">>
    [] line = "01/08/25" -> <<"01", "/", "08", "/", "25">>
    [] line = "02/08/25" -> <<"02", "/", "08", "/", "25">>

\* the Transaction built by an extractor; amount is NoValue for None
Transaction(page, line_index, date, time, channel, description, amount, is_credit, payer) ==
  [page |-> page, line_index |-> line_index, date |-> date, time |-> time,
   channel |-> channel, description |-> description, amount |-> amount,
   is_credit |-> is_credit, payer |-> payer]

\* one pass through the body of a scan loop: the cursor it leaves, the
\* Transaction it appended (if any), whether it left the loop with break
Step(next_i, emitted, stop) == [i |-> next_i, emitted |-> emitted, brk |-> stop]
\* the same for the loops that carry a running balance
BalanceStep(next_i, emitted, balance) == [i |-> next_i, emitted |-> emitted, prev_balance |-> balance]

(***************************************************************************)
(* KBankPDFExtractor                                                       *)
(***************************************************************************)
KBANK_DATE_RE(line) == line \in {"01-04-25", "02-04-25"}
KBANK_TIME_RE(line) == line \in {"05:27"}
KBANK_MONEY_RE(line) == line \in {"0.00", "1,000.00", "25,000.00"}
\* ชำระเงิน, โอนเงิน, ถอนเงินสด
TX_TYPE_KEYWORDS_DEBIT == {"CHAMRA NGOEN", "ON NGOEN", "THON NGOEN SOT"}
\* รับโอนเงิน, รับโอนเงินอัตโนมัติ, รับโอนเงินผ่าน QR
TX_TYPE_KEYWORDS_CREDIT == {"RAP ON NGOEN", "RAP ON NGOEN ATTANOMAT", "RAP ON NGOEN PHAN QR"}
TX_TYPE_KEYWORDS_ALL == TX_TYPE_KEYWORDS_DEBIT \cup TX_TYPE_KEYWORDS_CREDIT

\* the column headers วันที่, ช่องทาง / รายการ, ยอดคงเหลือ in one line
KBankTableHeader == "WAN THI WELA CHONG THANG YOT KHONG LUEA"

\* _is_table_format: the three headers occur in the first 30 lines
is_table_format(lines) ==
  \E k \in 1..Min(30, Len(lines)) : lines[k] = KBankTableHeader

\* "ยอดยกมา" in line
mentions_brought_forward(line) == line \in {"YOT YOK MA"}
\* variant: "ยอดยกมา" in line
mentions_carry_forward_ma_only(line) == mentions_brought_forward(line)
\* "ยอดยกมา" in line or "ยอดยกไป" in line
mentions_carry_forward(line) == line \in {"YOT YOK MA", "YOT YOK PAI"}

is_carry_forward_block(lines, i) ==
  /\ i + 2 < Len(lines)
  /\ KBANK_DATE_RE(At(lines, i))
  /\ KBANK_MONEY_RE(At(lines, i + 1))
  /\ mentions_carry_forward(At(lines, i + 2))

\* _extract_payer_from_desc: the name after "จาก <bank> X<account>", cut at
\* "++"; None when no description line has "จาก"
extract_payer_from_desc(desc_lines) ==
  IF \E k \in 1..Len(desc_lines) : desc_lines[k] = "CHAK SCB X5247 ACME CO++"
  THEN "ACME CO" ELSE None

\* the fallback of the credit decision: "รับโอนเงิน" in blob; the table
\* parser also accepts "รับดอกเบี้ย" and "My QR", which no modelled line has
mentions_receive(desc_lines) ==
  \E k \in 1..Len(desc_lines) : desc_lines[k] \in {"RAP ON NGOEN QR"} \cup TX_TYPE_KEYWORDS_CREDIT

kbank_is_credit(tx_type, desc_lines) ==
  IF tx_type \in TX_TYPE_KEYWORDS_CREDIT THEN TRUE
  ELSE IF tx_type \in TX_TYPE_KEYWORDS_DEBIT THEN FALSE
  ELSE mentions_receive(desc_lines)

\* the tail of a block, shared by both parsers: the transaction type found
\* (or not) at type_idx, the optional amount line after it, and the
\* Transaction object; `i` is the cursor after the amount
kbank_block(lines, start_idx, time_str, channel_str, balance_idx, type_idx) ==
  LET n == Len(lines)
      has_type == type_idx < n /\ At(lines, type_idx) \in TX_TYPE_KEYWORDS_ALL
      tx_type == IF has_type THEN At(lines, type_idx) ELSE None
      amount_idx == IF has_type THEN type_idx + 1 ELSE type_idx
      has_amount == amount_idx < n /\ KBANK_MONEY_RE(At(lines, amount_idx))
      amount_val == IF has_amount THEN Some(parse_money(At(lines, amount_idx))) ELSE NoValue
      desc_lines == Slice(lines, balance_idx + 1, type_idx)
      is_credit == kbank_is_credit(tx_type, desc_lines)
  IN [i |-> IF has_amount THEN amount_idx + 1 ELSE amount_idx,
      amount |-> amount_val,
      tx |-> Transaction(1, start_idx, DatePieces(At(lines, start_idx)), time_str,
                         OrNone(channel_str), OrNone(Join(desc_lines)), amount_val, is_credit,
                         IF is_credit THEN extract_payer_from_desc(desc_lines) ELSE None)]

\* one pass of the while loop of _parse_kbank_page
parse_kbank_page_iteration(lines, i) ==
  LET n == Len(lines)
  IN IF ~KBANK_DATE_RE(At(lines, i)) THEN Step(i + 1, <<>>, FALSE)
     ELSE IF i + 1 >= n THEN Step(i + 1, <<>>, TRUE)
     ELSE IF is_carry_forward_block(lines, i) THEN Step(i + 3, <<>>, FALSE)
     ELSE Bind(IF KBANK_TIME_RE(At(lines, i + 1)) THEN i + 2 ELSE i + 1, LAMBDA time_end :
       IF time_end >= n THEN Step(time_end, <<>>, TRUE)
       ELSE Bind(ScanTo(lines, time_end, LAMBDA l : KBANK_MONEY_RE(l) \/ KBANK_DATE_RE(l)),
                 LAMBDA balance_idx :
         IF balance_idx >= n THEN Step(balance_idx, <<>>, TRUE)
         ELSE IF ~KBANK_MONEY_RE(At(lines, balance_idx)) THEN Step(balance_idx, <<>>, FALSE)
         ELSE Bind(ScanTo(lines, balance_idx + 1,
                          LAMBDA l : l \in TX_TYPE_KEYWORDS_ALL \/ KBANK_DATE_RE(l)),
                   LAMBDA type_idx :
           Bind(kbank_block(lines, i,
                            IF time_end = i + 2 THEN At(lines, i + 1) ELSE None,
                            Join(Slice(lines, time_end, balance_idx)),
                            balance_idx, type_idx),
                LAMBDA block : Step(block.i, <<block.tx>>, FALSE)))))

\* one pass of the while loop of _parse_kbank_table
parse_kbank_table_iteration(lines, i) ==
  LET n == Len(lines)
  IN IF ~KBANK_DATE_RE(At(lines, i)) THEN Step(i + 1, <<>>, FALSE)
     ELSE IF i + 1 >= n THEN Step(i + 1, <<>>, TRUE)
     ELSE IF mentions_brought_forward(At(lines, i + 1)) THEN Step(i + 2, <<>>, FALSE)
     ELSE Bind(IF KBANK_TIME_RE(At(lines, i + 1)) THEN i + 2 ELSE i + 1, LAMBDA time_end :
       IF time_end >= n THEN Step(time_end, <<>>, TRUE)
       ELSE Bind(IF ~KBANK_MONEY_RE(At(lines, time_end)) THEN time_end + 1 ELSE time_end,
                 LAMBDA balance_idx :
         IF balance_idx >= n THEN Step(balance_idx, <<>>, TRUE)
         ELSE IF ~KBANK_MONEY_RE(At(lines, balance_idx)) THEN Step(balance_idx, <<>>, FALSE)
         ELSE IF balance_idx + 1 >= n THEN Step(balance_idx + 1, <<>>, TRUE)
         ELSE Bind(ScanTo(lines, balance_idx + 1,
                          LAMBDA l : l \in TX_TYPE_KEYWORDS_ALL \/ KBANK_DATE_RE(l)),
                   LAMBDA type_idx :
           Bind(kbank_block(lines, i,
                            IF time_end = i + 2 THEN At(lines, i + 1) ELSE None,
                            IF balance_idx = time_end + 1 THEN At(lines, time_end) ELSE "",
                            balance_idx, type_idx),
                LAMBDA block :
                  IF block.amount = NoValue THEN Step(block.i, <<>>, FALSE)
                  ELSE Step(block.i, <<block.tx>>, FALSE)))))

(***************************************************************************)
(* KTBPDFExtractor                                                         *)
(***************************************************************************)
KTB_DATE_RE(line) == line \in {"24/10/68"}
KTB_TIME_RE(line) == line \in {"02:15"}
KTB_MONEY_RE(line) == line \in {"0.00", "29,361.01", "84,150.00"}
KTB_BRANCH_RE(line) == line \in {"1400"}

\* the lines with both "(" and ")": เงินเดือน/อื่นๆ (BSD02) and
\* โอนเงินออก-พร้อมเพย์ (MORISW)
KTB_CodeLines == {"NGOEN DUEAN (BSD02)", "ON NGOEN OK (MORISW)"}

\* variant: no confirming line required
has_transaction_code_any(line) == TRUE
\* "(" in line and ")" in line
has_transaction_code(line) == line \in KTB_CodeLines

\* text.split("\n"): the empty text gives one empty line
ktb_raw_lines(page) == IF Len(page) = 0 THEN <<"">> ELSE page

\* _is_credit_transaction: CREDIT_KEYWORDS, then DEBIT_KEYWORDS, then the
\* Thai verbs, else debit
is_credit_transaction(tx_type_line) ==
  CASE tx_type_line = "NGOEN DUEAN (BSD02)" -> TRUE
    [] tx_type_line = "ON NGOEN OK (MORISW)" -> FALSE
    [] OTHER -> FALSE

\* _extract_payer: the part before the first "/" when longer than 3
\* characters and not an account number, else a first word in capitals
ktb_extract_payer(detail_line) ==
  CASE detail_line = "SG CAPITAL/200000" -> "SG CAPITAL"
    [] detail_line = "014-1114765247" -> None
    [] OTHER -> None

\* _parse_transaction_block: <<>> for None, <<tx>> for a Transaction
parse_transaction_block(lines, start_idx) ==
  IF start_idx + 6 >= Len(lines) THEN <<>>
  ELSE IF ~KTB_DATE_RE(At(lines, start_idx)) THEN <<>>
  ELSE IF ~has_transaction_code(At(lines, start_idx + 1)) THEN <<>>
  ELSE IF ~KTB_MONEY_RE(At(lines, start_idx + 3)) THEN <<>>
  ELSE LET tx_type_line == At(lines, start_idx + 1)
           detail_line == At(lines, start_idx + 2)
           branch_line == At(lines, start_idx + 5)
           time_line == At(lines, start_idx + 6)
           is_credit == is_credit_transaction(tx_type_line)
       IN <<Transaction(1, start_idx, DatePieces(At(lines, start_idx)),
                        IF KTB_TIME_RE(time_line) THEN time_line ELSE None,
                        IF KTB_BRANCH_RE(branch_line) THEN branch_line ELSE None,
                        tx_type_line \o " | " \o detail_line,
                        Some(parse_money(At(lines, start_idx + 3))),
                        is_credit,
                        IF is_credit THEN ktb_extract_payer(detail_line) ELSE None)>>

\* one pass of the while loop of _extract_transactions_from_text
ktb_extract_iteration(raw_lines, i) ==
  LET n == Len(raw_lines)
      tx_type_candidate == IF i + 1 < n THEN At(raw_lines, i + 1) ELSE ""
  IN IF KTB_DATE_RE(At(raw_lines, i)) /\ has_transaction_code(tx_type_candidate)
     THEN Bind(parse_transaction_block(raw_lines, i), LAMBDA tx :
            IF Len(tx) = 1 THEN Step(i + 7, tx, FALSE) ELSE Step(i + 1, <<>>, FALSE))
     ELSE Step(i + 1, <<>>, FALSE)

(***************************************************************************)
(* SCBPDFExtractor                                                         *)
(***************************************************************************)
SCB_DATE_RE(line) == line \in {"01/02/25", "01/02/68"}
SCB_TIME_RE(line) == line \in {"15:31"}
SCB_CODE_RE(line) == line \in {"X1"}
SCB_CHANNEL_RE(line) == line \in {"ENET"}
SCB_MONEY_RE(line) == line \in {"0.00", "38.89", "35,000.00"}

\* BALANCE_DESC_RE: "<balance> <description>"; กสิกรไทย (KBANK) /X685027
\* and จ่ายบิล
SCB_BALANCE_DESC_RE(line) ==
  line \in {"35,038.89 KASIKORNTHAI (KBANK) /X685027", "10.00 CHAI BIN"}
BalanceDescGroups(line) ==
  CASE line = "35,038.89 KASIKORNTHAI (KBANK) /X685027"
         -> <<"35,038.89", "KASIKORNTHAI (KBANK) /X685027">>
    [] line = "10.00 CHAI BIN" -> <<"10.00", "CHAI BIN">>

\* "ยอดเงินคงเหลือยกมา" in line or "BALANCE BROUGHT FORWARD" in line.upper()
is_balance_brought_forward(line) ==
  line \in {"YOT NGOEN KHONG LUEA YOK MA (BALANCE BROUGHT FORWARD)", "Balance Brought Forward"}

\* _extract_counterparty: the text left of the first "/" of a credit
extract_counterparty(description, is_credit) ==
  IF ~is_credit \/ description = "" THEN None
  ELSE CASE description = "KASIKORNTHAI (KBANK) /X685027" -> "KASIKORNTHAI (KBANK)"
         [] OTHER -> None

\* SCBPDFExtractor._normalize_date: DD/MM/YY -> DD/MM/YYYY
scb_normalize_date(d) ==
  LET g == DatePieces(d)
  IN <<g[1], "/", g[3], "/", (IF TwoDigit[g[5]] >= 60 THEN "25" ELSE "20") \o g[5]>>

\* one pass of the while loop of _extract_transactions_from_lines
scb_extract_iteration(lines, i, prev_balance) ==
  LET n == Len(lines)
      cur_line == At(lines, i)
  IN IF is_balance_brought_forward(cur_line)
     THEN Bind(ScanTo(lines, i + 1, LAMBDA l : l # ""), LAMBDA j :
            IF j < n /\ SCB_MONEY_RE(At(lines, j))
            THEN BalanceStep(j + 1, <<>>, Some(parse_money(At(lines, j))))
            ELSE BalanceStep(i + 1, <<>>, prev_balance))
     ELSE IF /\ SCB_DATE_RE(cur_line) /\ i + 5 < n
             /\ SCB_TIME_RE(At(lines, i + 1)) /\ SCB_CODE_RE(At(lines, i + 2))
             /\ SCB_CHANNEL_RE(At(lines, i + 3)) /\ SCB_MONEY_RE(At(lines, i + 4))
             /\ SCB_BALANCE_DESC_RE(At(lines, i + 5))
     THEN LET groups == BalanceDescGroups(At(lines, i + 5))
              balance_after == parse_money(groups[1])
              description == groups[2]
              is_credit == IF prev_balance = NoValue THEN TRUE
                           ELSE balance_after > Val(prev_balance)
          IN BalanceStep(i + 6,
               <<Transaction(1, i, scb_normalize_date(cur_line), At(lines, i + 1),
                             At(lines, i + 2) \o " " \o At(lines, i + 3), description,
                             Some(parse_money(At(lines, i + 4))), is_credit,
                             extract_counterparty(description, is_credit))>>,
               Some(balance_after))
     ELSE BalanceStep(i + 1, <<>>, prev_balance)

(***************************************************************************)
(* BangkokBankPDFExtractor                                                 *)
(***************************************************************************)
BBL_DATE_DESC_RE(line) == line \in {"01/08/25 B/F", "01/08/25 SALARY", "02/08/25 TRF. PROMPTPAY"}
\* the groups date and desc
DateDescGroups(line) ==
  CASE line = "01/08/25 B/F" -> <<"01/08/25", "B/F">>
    [] line = "01/08/25 SALARY" -> <<"01/08/25", "SALARY">>
    [] line = "02/08/25 TRF. PROMPTPAY" -> <<"02/08/25", "TRF. PROMPTPAY">>
BBL_MONEY_RE(line) ==
  line \in {"0.00", "452.63", "10,000.00", "10,452.63", "25,000.00", "35,452.63"}

\* l2.split()[0] if l2 else "", and l2[len(l2_first):].strip()
FirstToken(line) ==
  CASE line = "35,452.63 Auto" -> "35,452.63"
    [] line = "452.63 mPhone" -> "452.63"
    [] line \in {"01/08/25 B/F", "01/08/25 SALARY"} -> "01/08/25"
    [] line = "02/08/25 TRF. PROMPTPAY" -> "02/08/25"
    [] OTHER -> line
ViaDetail(line) ==
  CASE line = "35,452.63 Auto" -> "Auto"
    [] line = "452.63 mPhone" -> "mPhone"
    [] OTHER -> ""

\* desc_txt.upper().startswith("B/F")
StartsWithBF(desc_txt) == desc_txt \in {"B/F"}
\* some CREDIT_HINT_KEYWORDS member occurs in desc_txt.upper()
HasCreditHint(desc_txt) == desc_txt \in {"SALARY"}

\* str(2000 + int(yy))
bbl_normalize_date(dmy_short) ==
  LET g == DatePieces(dmy_short)
      year_full == 2000 + TwoDigit[g[5]]
  IN <<g[1], "/", g[3], "/", CASE year_full = 2024 -> "2024" [] year_full = 2025 -> "2025"
                               [] year_full = 2068 -> "2068">>

\* the pairs (abs(diff), amount), in satang, one satang apart for which the
\* doubles give abs(abs(diff) - amount) <= 0.01: 0.02 - 0.01 is 0.01, while
\* 100.01 - 100.0 is 0.010000000000005116 and 7947.74 - 7947.73 is
\* 0.010000000000218279
OneSatangApartWithin ==
  {<<1, 0>>, <<0, 1>>, <<2, 1>>, <<794772, 794773>>, <<2499999, 2500000>>,
   <<2500001, 2500000>>}

\* abs(abs(diff) - amount) <= 0.01 on the doubles of two-decimal values:
\* true for equal values, false from 2 satang on, and decided by the
\* rounding of the doubles at exactly 1 satang
within_tolerance(abs_diff, amount) ==
  \/ abs_diff = amount
  \/ Abs(abs_diff - amount) = 1 /\ <<abs_diff, amount>> \in OneSatangApartWithin

\* _decide_credit_flag; amounts in satang
decide_credit_flag(desc_txt, amount, new_balance, old_balance) ==
  LET diff == new_balance - Val(old_balance)
  IN IF old_balance # NoValue /\ within_tolerance(Abs(diff), amount) /\ diff > 0 THEN TRUE
     ELSE IF old_balance # NoValue /\ within_tolerance(Abs(diff), amount) /\ diff < 0 THEN FALSE
     ELSE HasCreditHint(desc_txt)

\* BangkokBankPDFExtractor._extract_payer
bbl_extract_payer(desc_txt, via_detail, is_credit) ==
  IF ~is_credit THEN None
  ELSE IF desc_txt \in {"SALARY"} THEN "SALARY"
  ELSE IF via_detail \in {"Auto"} THEN via_detail
  ELSE None

\* one pass of the while loop of _parse_page_transactions
bbl_parse_iteration(lines, idx, prev_balance) ==
  LET n == Len(lines)
      line0 == At(lines, idx)
      l1 == IF idx + 1 < n THEN At(lines, idx + 1) ELSE ""
      l2 == IF idx + 2 < n THEN At(lines, idx + 2) ELSE ""
  IN IF ~BBL_DATE_DESC_RE(line0) THEN BalanceStep(idx + 1, <<>>, prev_balance)
     ELSE IF ~BBL_MONEY_RE(l1) THEN BalanceStep(idx + 1, <<>>, prev_balance)
     ELSE LET raw_date == DateDescGroups(line0)[1]
              desc_txt == DateDescGroups(line0)[2]
              l2_first == IF l2 = "" THEN "" ELSE FirstToken(l2)
          IN IF StartsWithBF(desc_txt) \/ ~BBL_MONEY_RE(l2_first)
             THEN BalanceStep(idx + 2, <<>>, Some(parse_money(l1)))
             ELSE LET amount_val == parse_money(l1)
                      balance_after == parse_money(l2_first)
                      via_detail == ViaDetail(l2)
                      is_credit == decide_credit_flag(desc_txt, amount_val, balance_after,
                                                      prev_balance)
                  IN BalanceStep(idx + 3,
                       <<Transaction(1, idx, bbl_normalize_date(raw_date), "", desc_txt,
                                     via_detail, Some(amount_val), is_credit,
                                     bbl_extract_payer(desc_txt, via_detail, is_credit))>>,
                       Some(balance_after))

(***************************************************************************)
(* TTBPDFExtractor                                                         *)
(***************************************************************************)
TTB_TIME_RE(line) == line \in {"05:44"}
TTB_MONEY_RE(line) == line \in {"+25,000.00", "-24,600.00", "0.00", "100,421.94"}
\* 30 ก.ย. 68 and 1 ต.ค. 68
THAI_DATE_RE(line) == line \in {"30 K.Y. 68", "1 T.K. 68"}
\* the groups day, Thai month, 2-digit Buddhist year
ThaiDateGroups(line) ==
  CASE line = "30 K.Y. 68" -> <<"30", "K.Y.", "68">>
    [] line = "1 T.K. 68" -> <<"1", "T.K.", "68">>
TTB_CHANNEL_RE(line) == line \in {"KTB"}

\* THAI_MONTHS.get(th_month, "01"): ม.ค. ก.พ. มี.ค. เม.ย. พ.ค. มิ.ย. ก.ค.
\* ส.ค. ก.ย. ต.ค. พ.ย. ธ.ค.
THAI_MONTHS(th_month) ==
  CASE th_month = "M.K." -> "01" [] th_month = "K.P." -> "02" [] th_month = "MI.K." -> "03"
    [] th_month = "ME.Y." -> "04" [] th_month = "PH.K." -> "05" [] th_month = "MI.Y." -> "06"
    [] th_month = "K.K." -> "07" [] th_month = "S.K." -> "08" [] th_month = "K.Y." -> "09"
    [] th_month = "T.K." -> "10" [] th_month = "PH.Y." -> "11" [] th_month = "TH.K." -> "12"
    [] OTHER -> "01"

\* _thai_date_to_date_string: f"{int(day):02d}/{month}/{int('25' + yy)}"
thai_date_to_date_string(thai_date) ==
  LET g == ThaiDateGroups(thai_date)
  IN <<zfill2(g[1]), "/", THAI_MONTHS(g[2]), "/", "25" \o g[3]>>

\* _parse_signed_money, in satang
parse_signed_money(s) ==
  CASE s = "+25,000.00" -> 2500000
    [] s = "-24,600.00" -> 0 - 2460000
    [] OTHER -> parse_money(s)

\* _infer_payer: the channel of a credit, else a bank code among the words
\* after "รับเงินโอน", which no modelled description has
infer_payer(description, channel, is_credit) ==
  IF ~is_credit THEN None
  ELSE IF channel # "" THEN channel
  ELSE None

\* the pass with a `continue` that forgets `i += 1` when no date line follows
\* the time line
ttb_parse_iteration_stalled(lines, i) ==
  LET n == Len(lines)
  IN IF ~TTB_TIME_RE(At(lines, i)) THEN Step(i + 1, <<>>, FALSE)
     ELSE IF i + 1 >= n \/ ~THAI_DATE_RE(At(lines, i + 1)) THEN Step(i, <<>>, FALSE)
     ELSE Bind(ScanTo(lines, i + 2, LAMBDA l : TTB_MONEY_RE(l)), LAMBDA amount_line_idx :
       IF amount_line_idx >= n THEN Step(i + 1, <<>>, FALSE)
       ELSE Bind(Slice(lines, i + 2, amount_line_idx), LAMBDA chunks :
         LET has_channel == Len(chunks) > 0 /\ TTB_CHANNEL_RE(chunks[Len(chunks)])
             channel == IF has_channel THEN chunks[Len(chunks)] ELSE ""
             desc_chunks == IF has_channel THEN SubSeq(chunks, 1, Len(chunks) - 1) ELSE chunks
             description == Join(desc_chunks)
             signed_amount == parse_signed_money(At(lines, amount_line_idx))
             is_credit == signed_amount > 0
         IN Step(amount_line_idx + 2,
                 <<Transaction(1, i, thai_date_to_date_string(At(lines, i + 1)), At(lines, i),
                               channel, description, Some(Abs(signed_amount)), is_credit,
                               infer_payer(description, channel, is_credit))>>,
                 FALSE)))

\* one pass of the while loop of _parse_transactions_from_lines
ttb_parse_iteration(lines, i) ==
  LET n == Len(lines)
  IN IF ~TTB_TIME_RE(At(lines, i)) THEN Step(i + 1, <<>>, FALSE)
     ELSE IF i + 1 >= n \/ ~THAI_DATE_RE(At(lines, i + 1)) THEN Step(i + 1, <<>>, FALSE)
     ELSE Bind(ScanTo(lines, i + 2, LAMBDA l : TTB_MONEY_RE(l)), LAMBDA amount_line_idx :
       IF amount_line_idx >= n THEN Step(i + 1, <<>>, FALSE)
       ELSE Bind(Slice(lines, i + 2, amount_line_idx), LAMBDA chunks :
         LET has_channel == Len(chunks) > 0 /\ TTB_CHANNEL_RE(chunks[Len(chunks)])
             channel == IF has_channel THEN chunks[Len(chunks)] ELSE ""
             desc_chunks == IF has_channel THEN SubSeq(chunks, 1, Len(chunks) - 1) ELSE chunks
             description == Join(desc_chunks)
             signed_amount == parse_signed_money(At(lines, amount_line_idx))
             is_credit == signed_amount > 0
         IN Step(amount_line_idx + 2,
                 <<Transaction(1, i, thai_date_to_date_string(At(lines, i + 1)), At(lines, i),
                               channel, description, Some(Abs(signed_amount)), is_credit,
                               infer_payer(description, channel, is_credit))>>,
                 FALSE)))

(***************************************************************************)
(* BankDetector                                                            *)
(***************************************************************************)
\* The text of a page is empty or one of the phrases below.  Thai text is
\* written "th:<transliteration>":
\*   th:thanakhan thai phanit            ธนาคารไทยพาณิชย์
\*   th:thanakhan krung thai             ธนาคารกรุงไทย
\*   th:thanakhan kasikorn thai          ธนาคารกสิกรไทย
\*   th:kasikorn                         กสิกร
\*   th:on pai kasikorn thai             โอนไป กสิกรไทย (a transfer description)
\*   th:thanakhan krung thep             ธนาคารกรุงเทพ
\*   th:thanakhan thahan thai thanachat  ธนาคารทหารไทยธนชาต
\*   th:thi thi bi                       ทีทีบี
Phrases == {"th:thanakhan thai phanit", "Siam Commercial Bank", "Krungthai Bank",
            "th:thanakhan kasikorn thai", "th:on pai kasikorn thai", "K PLUS",
            "Bangkok Bank", "www.bangkokbank.com", "ttbbank.com", "TMBThanachart",
            "Statement"}

\* the needles of detect_bank that are substrings of a phrase
NeedlesIn(phrase) ==
  CASE phrase = "th:thanakhan thai phanit" -> {"th:thanakhan thai phanit"}
    [] phrase = "th:thanakhan kasikorn thai" -> {"th:thanakhan kasikorn thai", "th:kasikorn"}
    [] phrase = "th:on pai kasikorn thai" -> {"th:kasikorn"}
    [] phrase = "ttbbank.com" -> {"ttbbank.com"}
    [] OTHER -> {}

\* the needles of detect_bank that are substrings of phrase.upper()
NeedlesInUpper(phrase) ==
  CASE phrase = "Siam Commercial Bank" -> {"SIAM COMMERCIAL"}
    [] phrase = "Krungthai Bank" -> {"KRUNGTHAI"}
    [] phrase = "K PLUS" -> {"K PLUS"}
    [] phrase = "Bangkok Bank" -> {"BANGKOK BANK"}
    [] phrase = "www.bangkokbank.com" -> {"KBANK"}
    [] phrase = "ttbbank.com" -> {"TTB"}
    [] phrase = "TMBThanachart" -> {"TMB", "THANACHART"}
    [] OTHER -> {}

\* needle in sample_text, needle in sample_upper; sample_text is the list of
\* the texts of the sampled pages
Found(needle, sample_text) ==
  \E k \in 1..Len(sample_text) : needle \in NeedlesIn(sample_text[k])
FoundUpper(needle, sample_text) ==
  \E k \in 1..Len(sample_text) : needle \in NeedlesInUpper(sample_text[k])

\* the conditions of the if statements of detect_bank, lines 44-66
scb_rule(t) == Found("th:thanakhan thai phanit", t) \/ FoundUpper("SIAM COMMERCIAL", t)
ktb_rule(t) == Found("th:thanakhan krung thai", t) \/ FoundUpper("KRUNGTHAI", t)
kbank_rule(t) ==
  \/ Found("th:thanakhan kasikorn thai", t) \/ FoundUpper("KASIKORNBANK", t)
  \/ FoundUpper("K-MOBILE BANKING", t) \/ FoundUpper("K PLUS", t) \/ FoundUpper("K-PLUS", t)
  \/ Found("th:kasikorn", t) \/ FoundUpper("KBANK", t)
bbl_rule(t) == Found("th:thanakhan krung thep", t) \/ FoundUpper("BANGKOK BANK", t)
tmb_rule(t) ==
  \/ Found("th:thanakhan thahan thai thanachat", t) \/ FoundUpper("TMB", t)
  \/ FoundUpper("THANACHART", t)
  \/ FoundUpper("TTB", t) \/ Found("th:thi thi bi", t) \/ Found("ttbbank.com", t)

\* variant: the KBank rules tried before the SCB rule
detect_rules_kbank_first(sample_text) ==
  IF kbank_rule(sample_text) THEN "KBANK"
  ELSE IF scb_rule(sample_text) THEN "SCB"
  ELSE IF ktb_rule(sample_text) THEN "KTB"
  ELSE IF bbl_rule(sample_text) THEN "BBL"
  ELSE IF tmb_rule(sample_text) THEN "TMB"
  ELSE "UNKNOWN"
\* the chain of if statements
detect_rules(sample_text) ==
  IF scb_rule(sample_text) THEN "SCB"
  ELSE IF ktb_rule(sample_text) THEN "KTB"
  ELSE IF kbank_rule(sample_text) THEN "KBANK"
  ELSE IF bbl_rule(sample_text) THEN "BBL"
  ELSE IF tmb_rule(sample_text) THEN "TMB"
  ELSE "UNKNOWN"

\* the text of the first two pages
sample_of(pages) == SubSeq(pages, 1, Min(2, Len(pages)))

(***************************************************************************)
(* State                                                                   *)
(***************************************************************************)
VARIABLES
  statement,        \* analyze: Statement.transactions
  expected_gross,   \* analyze: optional argument, None when not supplied
  employer,         \* analyze: optional argument
  pvd_rate,         \* analyze: provident-fund rate, percent
  extra_deductions, \* analyze: extra annual deductions
  income_type,      \* analyze: optional argument
  tax_call,         \* the tax-model method called and its argument
  tax_result,       \* what the method returned, NoValue before it returns
  outcome,          \* analyze, detect_bank: Pending before the call, then Returned / Raised
  parser,           \* the extractor at work: KBANK, KTB, SCB, BBL or TTB
  lines,            \* the lines of the page being parsed
  i,                \* the cursor of the scan loop (i, idx)
  txs,              \* the Transactions appended so far
  prev_balance,     \* SCB, BBL: the running balance, NoValue for None
  phase,            \* scanning while the scan loop runs, returned after it
  credit_flag,      \* BBL: the arguments of a _decide_credit_flag call and its result
  doc,              \* detect_bank, extract: the opened document
  password,         \* detect_bank, extract: the password argument
  pages_read,       \* the number of page.get_text() calls made so far
  calls,            \* BBL, SCB: the local variables of each extract() call in progress
  use_case,         \* AnalyzeStatementUseCase.execute: its collaborators, position and calls made
  database          \* dependencies: _database_instance and the get_database calls in progress

analyzeVars == <<statement, expected_gross, employer, pvd_rate, extra_deductions, income_type, tax_call, tax_result>>
parseVars == <<parser, lines, i, txs, prev_balance, phase, credit_flag>>
docVars == <<doc, password, pages_read, calls>>
serviceVars == <<use_case, database>>
vars == <<analyzeVars, outcome, parseVars, docVars, serviceVars>>

\* no tax-model method is called
NoCall == [fn |-> "none", arg |-> 0]
NoTaxCall == tax_call = NoCall /\ tax_result = NoValue

\* the variables of the components that are not at work
NoAnalysis ==
  /\ NoTaxCall
  /\ statement = <<>> /\ expected_gross = NoValue /\ employer = None
  /\ pvd_rate = 0 /\ extra_deductions = 0 /\ income_type = None
NoFlagCall == credit_flag = <<>>
NoParse ==
  /\ parser = None /\ lines = <<>> /\ i = 0 /\ txs = <<>>
  /\ prev_balance = NoValue /\ phase = "idle"
  /\ NoFlagCall
NoCalls == calls = <<>>
NoDocument ==
  /\ doc = [is_encrypted |-> FALSE, pages |-> <<>>] /\ password = None /\ pages_read = 0
  /\ NoCalls
NoUseCase == use_case = <<>>
NoDependencies == database = <<>>
NoService == NoUseCase /\ NoDependencies

(***************************************************************************)
(* Analysed statements                                                     *)
(***************************************************************************)
MaxCredits == 6

Payers == {"ACME CO.", "Bob"}
BaseAmounts == {5, THB(20), THB(200), THB(50000)}
Months == <<"01", "02", "03", "04", "05", "06", "07", "08">>
\* how a statement departs from one dated credit per month:
\*   repeat   the 2nd transaction falls in the month of the 1st
\*   undated  the 1st transaction has an empty date
\*   raw      dates are kept as DD-MM-YY
\*   summary  the 2nd transaction is a summary row
\*   debit    the 3rd transaction is a debit
\*   nopayer  the 1st transaction has no payer and a (CODE) description
\*   outlier  the 1st amount is 4% above the others
\*   sametime every transaction is booked at the payroll hour
Variants == {"plain", "repeat", "undated", "raw", "summary", "debit", "nopayer", "outlier", "sametime"}

\* the date of the k-th transaction of a statement
MkDate(k, variant) ==
  CASE variant = "repeat" /\ k = 2 -> <<"05", "/", Months[1], "/", "2025">>
    [] variant = "undated" /\ k = 1 -> <<>>
    [] variant = "raw" -> <<"05", "-", Months[k], "-", "25">>
    [] OTHER -> <<"05", "/", Months[k], "/", "2025">>

\* the k-th transaction of a statement
MkTransaction(k, payer, base, variant) ==
  [payer |-> IF variant = "nopayer" /\ k = 1 THEN None ELSE payer,
   description |-> IF variant = "nopayer" /\ k = 1 THEN DescCode
                   ELSE IF variant = "summary" /\ k = 2 THEN DescSummary
                   ELSE DescPlain,
   amount |-> IF variant = "outlier" /\ k = 1 THEN base + base \div 25 ELSE base,
   date |-> MkDate(k, variant),
   time |-> IF payer = "Bob" /\ variant # "sametime" THEN "14:00" ELSE "05:27",
   is_credit |-> ~(variant = "debit" /\ k = 3)]

\* the expected_gross arguments: none, 0, 53,000 THB, and 5,020.13 THB, which
\* lies 5,000 THB above the rounded average of six credits of 20 THB the
\* first of which is 4% higher (20.1333...)
ExpectedFigures == {NoValue, Some(0), Some(THB(53000)), Some(THB(5020) + 13)}

\* statements of n transactions: the first `split` from one payer, the rest
\* from another
InitAnalyze ==
  /\ \E n \in 0..MaxCredits : \E split \in 0..n : \E first \in Payers :
       \E second \in Payers \ {first} : \E base \in BaseAmounts : \E variant \in Variants :
         statement = [k \in 1..n |->
                        MkTransaction(k, IF k <= split THEN first ELSE second, base, variant)]
  /\ expected_gross \in ExpectedFigures
  /\ employer = None
  /\ pvd_rate \in {0, 3}
  /\ extra_deductions = 0
  /\ income_type \in {None, "SELF_EMPLOYED"}
  /\ outcome = Pending
  /\ NoTaxCall
  /\ NoParse
  /\ NoDocument
  /\ NoService

\* ThaiSalaryAnalyzer.analyze
analyze ==
  /\ outcome = Pending
  /\ LET credits == get_credit_transactions(statement)
     IN outcome' = IF income_type = "SELF_EMPLOYED"
                   THEN calculate_self_employed_income(credits, expected_gross)
                   ELSE analyze_salaried(credits, expected_gross, employer,
                                         pvd_rate, extra_deductions)
  /\ UNCHANGED <<analyzeVars, parseVars, docVars, serviceVars>>

NextAnalyze == analyze

SpecAnalyze == InitAnalyze /\ [][NextAnalyze]_vars

(***************************************************************************)
(* Statements of one monthly payer among one-off credits                   *)
(***************************************************************************)
SalaryMonths == 6
OneOffs == 20
SalaryPayer == "ACME CO."
\* payer names that _normalize_source leaves as they are
OneOffPayers ==
  <<"SHOP01", "SHOP02", "SHOP03", "SHOP04", "SHOP05", "SHOP06", "SHOP07", "SHOP08",
    "SHOP09", "SHOP10", "SHOP11", "SHOP12", "SHOP13", "SHOP14", "SHOP15", "SHOP16",
    "SHOP17", "SHOP18", "SHOP19", "SHOP20", "SHOP21">>

\* the k-th monthly credit: month k, or month 7 - k when the months run backwards
MkSalaryCredit(k, amount, time, order, variant) ==
  [payer |-> SalaryPayer, description |-> DescPlain, amount |-> amount,
   date |-> MkDate(IF order = "backwards" THEN SalaryMonths + 1 - k ELSE k, variant),
   time |-> time, is_credit |-> TRUE]

\* the j-th one-off credit: its own payer and its own amount
MkOneOff(j, scale, order) ==
  [payer |-> OneOffPayers[IF order = "backwards" THEN OneOffs + 1 - j ELSE j],
   description |-> DescPlain, amount |-> scale * j + j,
   date |-> MkDate(1 + (j % 8), "plain"), time |-> "14:00", is_credit |-> TRUE]

\* the monthly credits stand at positions first, first + stride, ... of the
\* statement and the one-off credits fill the other positions
InitGrouping ==
  /\ \E stride \in 1..4 : \E first \in 1..(OneOffs + SalaryMonths - (SalaryMonths - 1) * stride) :
       \E amount \in {THB(20), THB(900), THB(50000)} : \E time \in {"05:27", "14:00"} :
         \E scale \in {THB(100), THB(100000)} : \E order \in {"forwards", "backwards"} :
           \E variant \in {"plain", "raw"} :
             statement =
               [p \in 1..(OneOffs + SalaryMonths) |->
                  LET before == Cardinality({k \in 1..SalaryMonths : first + (k - 1) * stride < p})
                  IN IF p >= first /\ p <= first + (SalaryMonths - 1) * stride
                        /\ (p - first) % stride = 0
                     THEN MkSalaryCredit(before + 1, amount, time, order, variant)
                     ELSE MkOneOff(p - before, scale, order)]
  /\ expected_gross \in {NoValue, Some(0), Some(THB(53000))}
  /\ employer = None
  /\ pvd_rate = 0
  /\ extra_deductions = 0
  /\ income_type = None
  /\ outcome = Pending
  /\ NoTaxCall
  /\ NoParse
  /\ NoDocument
  /\ NoService

SpecGrouping == InitGrouping /\ [][NextAnalyze]_vars

(***************************************************************************)
(* Parsed pages                                                            *)
(***************************************************************************)
MaxChunks == 2

\* KBank: a credit block, a debit block without time and description, a block
\* with amount 0.00, a block without amount line, a block without type line
\* (its description has the credit marker), a block cut before the balance, a
\* lone date, the two carry-forward blocks, a brought-forward line right after
\* the date, a footer line, a lone money line
KBankChunks ==
  {<<"01-04-25", "05:27", "K PLUS", "25,000.00", "CHAK SCB X5247 ACME CO++", "RAP ON NGOEN", "1,000.00">>,
   <<"02-04-25", "K PLUS", "25,000.00", "CHAMRA NGOEN", "1,000.00">>,
   <<"01-04-25", "05:27", "K PLUS", "25,000.00", "CHAK SCB X5247 ACME CO++", "CHAMRA NGOEN", "0.00">>,
   <<"01-04-25", "05:27", "K PLUS", "25,000.00", "CHAK SCB X5247 ACME CO++", "RAP ON NGOEN">>,
   <<"01-04-25", "05:27", "K PLUS", "25,000.00", "RAP ON NGOEN QR">>,
   <<"01-04-25", "05:27", "K PLUS">>,
   <<"02-04-25">>,
   <<"01-04-25", "25,000.00", "YOT YOK MA">>,
   <<"02-04-25", "25,000.00", "YOT YOK PAI">>,
   <<"01-04-25", "YOT YOK MA">>,
   <<"Page 1">>,
   <<"1,000.00">>}

\* KTB: a header with a date, a credit block, a debit block with a trailing
\* metadata line, a block with amount 0.00, a block whose amount line is text, a
\* block without its time line, a lone date, a date followed by a line without
\* (CODE) and a money line at offset 3, a metadata line
KTBChunks ==
  {<<"WAN THI SONG KHAM KHO", "24/10/68", "CHUE BANCHI">>,
   <<"24/10/68", "NGOEN DUEAN (BSD02)", "SG CAPITAL/200000", "29,361.01", "84,150.00", "1400", "02:15">>,
   <<"24/10/68", "ON NGOEN OK (MORISW)", "014-1114765247", "29,361.01", "84,150.00", "1400", "02:15", "10690.37 ~ Tran: NBSWP">>,
   <<"24/10/68", "NGOEN DUEAN (BSD02)", "SG CAPITAL/200000", "0.00", "84,150.00", "1400", "02:15">>,
   <<"24/10/68", "NGOEN DUEAN (BSD02)", "SG CAPITAL/200000", "CHUE BANCHI", "84,150.00", "1400", "02:15">>,
   <<"24/10/68", "NGOEN DUEAN (BSD02)", "SG CAPITAL/200000", "29,361.01", "84,150.00", "1400">>,
   <<"24/10/68">>,
   <<"24/10/68", "CHUE BANCHI", "SG CAPITAL/200000", "29,361.01", "84,150.00", "1400", "02:15">>,
   <<"10690.37 ~ Tran: NBSWP">>}

\* SCB: the brought-forward line with its balance, the same after a blank line,
\* the brought-forward line alone, a block that raises the balance, a block
\* that lowers it (Buddhist year), a block with amount 0.00, a block with a
\* malformed code, a block without its balance line, a footer line
SCBChunks ==
  {<<"YOT NGOEN KHONG LUEA YOK MA (BALANCE BROUGHT FORWARD)", "38.89">>,
   <<"Balance Brought Forward", "", "38.89">>,
   <<"YOT NGOEN KHONG LUEA YOK MA (BALANCE BROUGHT FORWARD)">>,
   <<"01/02/25", "15:31", "X1", "ENET", "35,000.00", "35,038.89 KASIKORNTHAI (KBANK) /X685027">>,
   <<"01/02/68", "15:31", "X1", "ENET", "35,000.00", "10.00 CHAI BIN">>,
   <<"01/02/25", "15:31", "X1", "ENET", "0.00", "35,038.89 KASIKORNTHAI (KBANK) /X685027">>,
   <<"01/02/25", "15:31", "x1", "ENET", "35,000.00", "35,038.89 KASIKORNTHAI (KBANK) /X685027">>,
   <<"01/02/25", "15:31", "X1", "ENET", "35,000.00">>,
   <<"Page 1">>}

\* BBL: the B/F line with the opening balance, a salary credit, a transfer, a
\* transfer of 0.00, a transfer without its balance line, a lone date line, a
\* footer line
BBLChunks ==
  {<<"01/08/25 B/F", "10,452.63">>,
   <<"01/08/25 SALARY", "25,000.00", "35,452.63 Auto">>,
   <<"02/08/25 TRF. PROMPTPAY", "10,000.00", "452.63 mPhone">>,
   <<"02/08/25 TRF. PROMPTPAY", "0.00", "35,452.63 Auto">>,
   <<"02/08/25 TRF. PROMPTPAY", "25,000.00">>,
   <<"02/08/25 TRF. PROMPTPAY">>,
   <<"Statement">>}

\* TTB: a credit with channel, a debit, an amount of 0.00, a block without
\* amount, a time without date, a block whose only money line is the balance,
\* a footer line
TTBChunks ==
  {<<"05:44", "30 K.Y. 68", "RAP NGOEN ON", "KTB", "+25,000.00", "100,421.94">>,
   <<"05:44", "1 T.K. 68", "RAP NGOEN ON", "-24,600.00", "100,421.94">>,
   <<"05:44", "30 K.Y. 68", "RAP NGOEN ON", "0.00", "100,421.94">>,
   <<"05:44", "30 K.Y. 68", "RAP NGOEN ON">>,
   <<"05:44", "RAP NGOEN ON">>,
   <<"05:44", "30 K.Y. 68", "RAP NGOEN ON", "KTB", "100,421.94">>,
   <<"Statement">>}

ChunksOf(bank) ==
  CASE bank = "KBANK" -> KBankChunks
    [] bank = "KTB" -> KTBChunks
    [] bank = "SCB" -> SCBChunks
    [] bank = "BBL" -> BBLChunks
    [] bank = "TTB" -> TTBChunks

RECURSIVE Flatten(_)
Flatten(chunks) == IF Len(chunks) = 0 THEN <<>> ELSE Head(chunks) \o Flatten(Tail(chunks))

\* the pages made of at most MaxChunks chunks
PagesOf(bank) ==
  {Flatten(chunks) : chunks \in UNION {[1..k -> ChunksOf(bank)] : k \in 0..MaxChunks}}

\* a KBank page may start with the headers of the table layout
PrefixesOf(bank) == IF bank = "KBANK" THEN {<<>>, <<KBankTableHeader>>} ELSE {<<>>}

\* the lines handed to the scan loop: KBank, BBL and TTB drop empty lines
\* (the pages have none), SCB keeps them, KTB splits the raw text
LinesOf(bank, page) == IF bank = "KTB" THEN ktb_raw_lines(page) ELSE page

\* starting_prev_balance of a BBL page: None on the first page, the balance
\* left by the page before on the others; SCB starts from None
StartingBalancesOf(bank) == IF bank = "BBL" THEN {NoValue, Some(1045263)} ELSE {NoValue}

InitParse ==
  /\ \E bank \in {"KBANK", "KTB", "SCB", "BBL", "TTB"} :
       /\ parser = bank
       /\ \E prefix \in PrefixesOf(bank) : \E page \in PagesOf(bank) :
            lines = LinesOf(bank, prefix \o page)
       /\ prev_balance \in StartingBalancesOf(bank)
  /\ i = 0
  /\ txs = <<>>
  /\ phase = IF Len(lines) = 0 THEN "returned" ELSE "scanning"
  /\ NoFlagCall
  /\ outcome = Pending
  /\ NoAnalysis
  /\ NoDocument
  /\ NoService

\* the effect of one pass of a scan loop on the parser's variables
Advance(step) ==
  /\ i' = step.i
  /\ txs' = txs \o step.emitted
  /\ phase' = IF step.brk \/ step.i >= Len(lines) THEN "returned" ELSE "scanning"
  /\ UNCHANGED <<parser, lines, prev_balance, credit_flag, outcome, analyzeVars, docVars, serviceVars>>

BalanceAdvance(step) ==
  /\ i' = step.i
  /\ txs' = txs \o step.emitted
  /\ prev_balance' = step.prev_balance
  /\ phase' = IF step.i >= Len(lines) THEN "returned" ELSE "scanning"
  /\ UNCHANGED <<parser, lines, credit_flag, outcome, analyzeVars, docVars, serviceVars>>

\* KBankPDFExtractor._parse_kbank_page, one pass of its loop
parse_kbank_page ==
  /\ parser = "KBANK" /\ phase = "scanning" /\ ~is_table_format(lines)
  /\ \E step \in {parse_kbank_page_iteration(lines, i)} : Advance(step)

\* KBankPDFExtractor._parse_kbank_table, one pass of its loop
parse_kbank_table ==
  /\ parser = "KBANK" /\ phase = "scanning" /\ is_table_format(lines)
  /\ \E step \in {parse_kbank_table_iteration(lines, i)} : Advance(step)

\* KTBPDFExtractor._extract_transactions_from_text, one pass of its loop
ktb_extract_transactions_from_text ==
  /\ parser = "KTB" /\ phase = "scanning"
  /\ \E step \in {ktb_extract_iteration(lines, i)} : Advance(step)

\* SCBPDFExtractor._extract_transactions_from_lines, one pass of its loop
scb_extract_transactions_from_lines ==
  /\ parser = "SCB" /\ phase = "scanning"
  /\ \E step \in {scb_extract_iteration(lines, i, prev_balance)} : BalanceAdvance(step)

\* BangkokBankPDFExtractor._parse_page_transactions, one pass of its loop
bbl_parse_page_transactions ==
  /\ parser = "BBL" /\ phase = "scanning"
  /\ \E step \in {bbl_parse_iteration(lines, i, prev_balance)} : BalanceAdvance(step)

\* TTBPDFExtractor._parse_transactions_from_lines, one pass of its loop
ttb_parse_transactions_from_lines ==
  /\ parser = "TTB" /\ phase = "scanning"
  /\ \E step \in {ttb_parse_iteration(lines, i)} : Advance(step)

NextParse ==
  \/ parse_kbank_page
  \/ parse_kbank_table
  \/ ktb_extract_transactions_from_text
  \/ scb_extract_transactions_from_lines
  \/ bbl_parse_page_transactions
  \/ ttb_parse_transactions_from_lines

SpecParse == InitParse /\ [][NextParse]_vars

(***************************************************************************)
(* Detected documents                                                      *)
(***************************************************************************)
MaxPages == 3

\* the password that opens an encrypted document
UserPassword == "secret"

InitDetect ==
  /\ \E n \in 0..MaxPages : \E pages \in [1..n -> Phrases \cup {""}] :
       \E is_encrypted \in BOOLEAN :
         doc = [is_encrypted |-> is_encrypted, pages |-> pages]
  /\ password \in {None, "", UserPassword, "guess"}
  /\ pages_read = 0
  /\ NoCalls
  /\ outcome = Pending
  /\ NoAnalysis
  /\ NoParse
  /\ NoService

\* doc.authenticate(password) succeeded, or none was needed
Readable == ~doc.is_encrypted \/ password = UserPassword

\* BankDetector.detect_bank.  After a failed authenticate (its result is not
\* looked at) the library either refuses the page access with an exception or
\* reports no page; both are kept.
detect_bank ==
  /\ outcome = Pending
  /\ \/ /\ doc.is_encrypted /\ password \in {None, ""}
        /\ outcome' = Raised("ValueError: PDF is encrypted, password required")
        /\ pages_read' = pages_read
     \/ /\ doc.is_encrypted /\ password \notin {None, ""} /\ ~Readable
        /\ \/ outcome' = Raised("document closed or encrypted")
           \/ outcome' = Returned(detect_rules(<<>>))
        /\ pages_read' = pages_read
     \/ /\ Readable
        /\ outcome' = Returned(detect_rules(sample_of(doc.pages)))
        /\ pages_read' = pages_read + Len(sample_of(doc.pages))
  /\ UNCHANGED <<analyzeVars, parseVars, doc, password, calls, serviceVars>>

NextDetect == detect_bank

SpecDetect == InitDetect /\ [][NextDetect]_vars

(***************************************************************************)
(* The pipeline: get_pdf_extractor, then extract                           *)
(***************************************************************************)
\* get_pdf_extractor: the extractor for the detected bank, the KBank
\* extractor for UNKNOWN
get_pdf_extractor(bank) ==
  IF bank \in {"KTB", "KBANK", "TMB", "SCB", "BBL"} THEN bank ELSE "KBANK"

\* the messages of the two ValueErrors of extract:
\* PDF มีการป้องกันด้วยรหัสผ่าน ... (each extractor has its own wording) and
\* รหัสผ่าน PDF ไม่ถูกต้อง
PasswordRequiredError(extractor) == "ValueError: th:PDF mi kan pongkan duai rahat phan (" \o extractor \o ")"
WrongPasswordError == "ValueError: th:rahat phan PDF mai thuk tong"

\* the Statement built by extract
Extracted(total_pages, transactions) ==
  [kind |-> "extracted", total_pages |-> total_pages, transactions |-> transactions]

\* page.get_text() calls of extract: one per page, and the BBL extractor
\* reads the first page once more for the header
extract_reads(extractor, pages) ==
  Len(pages) + (IF extractor = "BBL" /\ Len(pages) > 0 THEN 1 ELSE 0)

\* <Bank>PDFExtractor.extract on the document detect_bank has looked at.
\* The pages of these documents hold marker texts only, no line of which
\* starts a transaction block, so the Statement has no transactions.
extract ==
  /\ outcome.kind = "returned"
  /\ \E extractor \in {get_pdf_extractor(outcome.value)} :
       IF doc.is_encrypted /\ password \in {None, ""}
       THEN outcome' = Raised(PasswordRequiredError(extractor)) /\ pages_read' = pages_read
       ELSE IF ~Readable
       THEN outcome' = Raised(WrongPasswordError) /\ pages_read' = pages_read
       ELSE /\ outcome' = Extracted(Len(doc.pages), <<>>)
            /\ pages_read' = pages_read + extract_reads(extractor, doc.pages)
  /\ UNCHANGED <<analyzeVars, parseVars, doc, password, calls, serviceVars>>

NextPipeline == detect_bank \/ extract

SpecPipeline == InitDetect /\ [][NextPipeline]_vars

(***************************************************************************)
(* Calls of the tax model                                                  *)
(***************************************************************************)
\* monthly gross salaries from 15,000.00 to 500,000.00 THB, every 1,000 THB
GrossStep == THB(1000)
MaxGrossSteps == 485
GrossGrid == {THB(15000) + k * GrossStep : k \in 0..MaxGrossSteps}

\* the monthly gross at which the annual taxable income reaches the lower
\* end of bracket k (the employment expense is at its cap there), at which
\* 5% of the gross reaches SSO_MAX, and at which half the annual gross
\* reaches EMPLOYMENT_EXPENSE_MAX
GrossBoundaries ==
  {(TAX_BRACKETS[k][1] + PERSONAL_ALLOWANCE + EMPLOYMENT_EXPENSE_MAX) \div 12 : k \in 2..Len(TAX_BRACKETS)}
    \cup {(SSO_MAX * 100) \div SSO_RATE, (2 * EMPLOYMENT_EXPENSE_MAX) \div 12}

\* the steps by which a gross is raised: a satang, a baht, the grid step
GrossDeltas == {1, THB(1), GrossStep}

\* monthly gross salaries below, on and around every boundary
GrossInputs ==
  GrossGrid \cup {k * GrossStep : k \in 1..14}
    \cup {b + d : b \in GrossBoundaries, d \in {0 - THB(1), 0 - 2, 0 - 1, 0, 1, 2, THB(1)}}

\* annual taxable incomes: the ends of the brackets and their neighbours, the
\* middle of every bracket, and two incomes in the last bracket
TaxableInputs ==
  {TAX_BRACKETS[k][1] + d : k \in 1..Len(TAX_BRACKETS), d \in {0, 1, THB(1), THB(12345)}}
    \cup {TAX_BRACKETS[k][1] - d : k \in 2..Len(TAX_BRACKETS), d \in {1, THB(1)}}
    \cup {(TAX_BRACKETS[k][1] + TAX_BRACKETS[k][2]) \div 2 : k \in 1..(Len(TAX_BRACKETS) - 1)}
    \cup {THB(7500000), THB(10000000)}

InitTax ==
  /\ \/ \E G \in GrossGrid : tax_call = [fn |-> "gross_from_net", arg |-> G]
     \/ \E G \in GrossInputs : tax_call = [fn |-> "calculated_net", arg |-> G]
     \/ \E t \in TaxableInputs : tax_call = [fn |-> "calculate_tax", arg |-> t]
  /\ tax_result = NoValue
  /\ statement = <<>> /\ expected_gross = NoValue /\ employer = None
  /\ pvd_rate = 0 /\ extra_deductions = 0 /\ income_type = None
  /\ outcome = Pending
  /\ NoParse
  /\ NoDocument
  /\ NoService

\* _gross_from_net(net(G)) with pvd_rate = 0 and extra_deductions = 0
call_gross_from_net ==
  /\ tax_call.fn = "gross_from_net" /\ tax_result = NoValue
  /\ \E monthly_net \in {calculated_net(tax_call.arg, 0, 0)} :
       tax_result' = Some(gross_from_net(monthly_net, 0, 0))
  /\ UNCHANGED <<statement, expected_gross, employer, pvd_rate, extra_deductions, income_type,
                 tax_call, outcome, parseVars, docVars, serviceVars>>

\* the net pay computed from a monthly gross (lines 487-494)
call_calculated_net ==
  /\ tax_call.fn = "calculated_net" /\ tax_result = NoValue
  /\ tax_result' = Some(calculated_net(tax_call.arg, 0, 0))
  /\ UNCHANGED <<statement, expected_gross, employer, pvd_rate, extra_deductions, income_type,
                 tax_call, outcome, parseVars, docVars, serviceVars>>

\* _calculate_tax(taxable_income)
call_calculate_tax ==
  /\ tax_call.fn = "calculate_tax" /\ tax_result = NoValue
  /\ tax_result' = Some(calculate_tax(tax_call.arg))
  /\ UNCHANGED <<statement, expected_gross, employer, pvd_rate, extra_deductions, income_type,
                 tax_call, outcome, parseVars, docVars, serviceVars>>

NextTax == call_gross_from_net \/ call_calculated_net \/ call_calculate_tax

SpecTax == InitTax /\ [][NextTax]_vars

(***************************************************************************)
(* Calls of BangkokBankPDFExtractor._decide_credit_flag                    *)
(***************************************************************************)
\* amounts: 0.01, 100.00, 7,947.73 and 25,000.00 THB
FlagAmounts == {1, THB(100), 794773, THB(25000)}
\* balances before the transaction: none, 0.00, 10,452.63 and 64,633.43 THB
FlagOldBalances == {NoValue, Some(0), Some(1045263), Some(6463343)}
\* how far, in satang, the move of the balance is from the amount
FlagOffsets == {-2, -1, 0, 1, 2}

FlagCall(desc_txt, amount, new_balance, old_balance) ==
  [desc_txt |-> desc_txt, amount |-> amount, new_balance |-> new_balance,
   old_balance |-> old_balance, result |-> NoValue]

\* the balance after the transaction is the balance before it moved up or
\* down by about the amount, or by twice the amount, or not at all
InitFlag ==
  /\ \E desc_txt \in {"SALARY", "TRF. PROMPTPAY"} : \E amount \in FlagAmounts :
       \E old_balance \in FlagOldBalances :
         \E move \in {sign * (amount + offset) : sign \in {-1, 1}, offset \in FlagOffsets}
                       \cup {2 * amount, 0} :
           \E new_balance \in {(IF old_balance = NoValue THEN THB(50000)
                                 ELSE Val(old_balance)) + move} :
             /\ new_balance >= 0
             /\ credit_flag = FlagCall(desc_txt, amount, new_balance, old_balance)
  /\ parser = "BBL" /\ lines = <<>> /\ i = 0 /\ txs = <<>>
  /\ prev_balance = NoValue /\ phase = "idle"
  /\ outcome = Pending
  /\ NoAnalysis
  /\ NoDocument
  /\ NoService

\* is_credit = self._decide_credit_flag(desc_txt, amount_val, balance_after,
\* prev_balance)
call_decide_credit_flag ==
  /\ credit_flag # <<>> /\ credit_flag.result = NoValue
  /\ credit_flag' = [credit_flag EXCEPT !.result =
                        Some(decide_credit_flag(credit_flag.desc_txt, credit_flag.amount,
                                                credit_flag.new_balance,
                                                credit_flag.old_balance))]
  /\ UNCHANGED <<parser, lines, i, txs, prev_balance, phase, outcome, analyzeVars, docVars, serviceVars>>

NextFlag == call_decide_credit_flag

SpecFlag == InitFlag /\ [][NextFlag]_vars

(***************************************************************************)
(* Whole documents: BangkokBankPDFExtractor.extract and                    *)
(* SCBPDFExtractor.extract on one extractor object                         *)
(*                                                                         *)
(* The extractor classes have no fields; prev_balance, the transaction     *)
(* list and the collected lines are local variables of a call.  Two calls  *)
(* on the same object are in progress and take their steps in any order.   *)
(***************************************************************************)
MaxDocPages == 2
Calls == {1, 2}

\* BBL pages: the opening balance, a salary credit that follows it, an
\* incoming transfer with no credit keyword, an outgoing transfer under a
\* page header
BBLDocPages ==
  {<<"01/08/25 B/F", "10,452.63">>,
   <<"01/08/25 SALARY", "25,000.00", "35,452.63 Auto">>,
   <<"02/08/25 TRF. PROMPTPAY", "25,000.00", "35,452.63 Auto">>,
   <<"Statement", "02/08/25 TRF. PROMPTPAY", "10,000.00", "452.63 mPhone">>}

\* SCB pages: the brought-forward balance, a block that ends on a high
\* balance, a block that ends on a low balance, a page without transactions
SCBDocPages ==
  {<<"YOT NGOEN KHONG LUEA YOK MA (BALANCE BROUGHT FORWARD)", "38.89">>,
   <<"01/02/25", "15:31", "X1", "ENET", "35,000.00", "35,038.89 KASIKORNTHAI (KBANK) /X685027">>,
   <<"Page 1", "01/02/68", "15:31", "X1", "ENET", "35,000.00", "10.00 CHAI BIN">>,
   <<"Page 1">>}

DocPagesOf(bank) == IF bank = "BBL" THEN BBLDocPages ELSE SCBDocPages

\* the documents of at most MaxDocPages pages
DocumentsOf(bank) == UNION {[1..k -> DocPagesOf(bank)] : k \in 0..MaxDocPages}

\* Transaction(page=page_num, ...) and Transaction(page=lines_info[i][0],
\* line_index=lines_info[i][1], ...)
Located(emitted, page_num, line_index) ==
  [k \in 1..Len(emitted) |->
     [emitted[k] EXCEPT !.page = page_num, !.line_index = line_index]]

\* BangkokBankPDFExtractor._parse_page_transactions: the while loop from idx
\* on, and the pair (txs, prev_balance) it returns
RECURSIVE bbl_parse_page_from(_, _, _, _, _)
bbl_parse_page_from(page_lines, page_num, idx, balance, found) ==
  IF idx >= Len(page_lines) THEN [txs |-> found, prev_balance |-> balance]
  ELSE LET step == bbl_parse_iteration(page_lines, idx, balance)
       IN bbl_parse_page_from(page_lines, page_num, step.i, step.prev_balance,
                              found \o Located(step.emitted, page_num, idx))

\* lines_info.append((page_num + 1, line_idx, raw_line.strip()))
lines_info_of(page_lines, page_num) ==
  [k \in 1..Len(page_lines) |-> <<page_num, k - 1, page_lines[k]>>]

\* SCBPDFExtractor._extract_transactions_from_lines: the while loop from i on
RECURSIVE scb_extract_from(_, _, _, _)
scb_extract_from(lines_info, cursor, balance, found) ==
  IF cursor >= Len(lines_info) THEN found
  ELSE LET step == scb_extract_iteration([k \in 1..Len(lines_info) |-> lines_info[k][3]],
                                         cursor, balance)
       IN scb_extract_from(lines_info, step.i, step.prev_balance,
            found \o Located(step.emitted, lines_info[cursor + 1][1],
                             lines_info[cursor + 1][2]))

\* variant: prev_balance is a field of the extractor object, so a call
\* starts from the balance another call left
initial_prev_balance_shared(cs, c) ==
  IF \E d \in Calls \ {c} : cs[d].phase # "new"
  THEN cs[CHOOSE d \in Calls \ {c} : cs[d].phase # "new"].prev_balance
  ELSE NoValue

\* prev_balance: Optional[float] = None, a local variable: the other calls
\* in progress on the object have no part in it
initial_prev_balance(cs, c) == NoValue

NewCall(bank, pages) ==
  [bank |-> bank, pages |-> pages, phase |-> "new", page |-> 0,
   prev_balance |-> NoValue, lines_info |-> <<>>, transactions |-> <<>>]

\* two calls on the extractor object of one bank, each with its own
\* unencrypted document
InitDocuments ==
  /\ \E bank \in {"BBL", "SCB"} : \E documents \in [Calls -> DocumentsOf(bank)] :
       calls = [c \in Calls |-> NewCall(bank, documents[c])]
  /\ doc = [is_encrypted |-> FALSE, pages |-> <<>>] /\ password = None /\ pages_read = 0
  /\ outcome = Pending
  /\ NoAnalysis
  /\ NoParse
  /\ NoService

\* extract, up to the page loop: BBL sets prev_balance and all_transactions,
\* SCB sets lines_info
begin_extract(c) ==
  /\ calls[c].phase = "new"
  /\ calls' = [calls EXCEPT ![c] =
                [@ EXCEPT !.phase = "open",
                          !.prev_balance = IF calls[c].bank = "BBL"
                                           THEN initial_prev_balance(calls, c)
                                           ELSE @]]
  /\ UNCHANGED <<analyzeVars, outcome, parseVars, doc, password, pages_read, serviceVars>>

\* one pass of the page loop: BBL parses the page from the balance the page
\* before left, SCB collects the lines of the page
read_page(c) ==
  /\ calls[c].phase = "open" /\ calls[c].page < Len(calls[c].pages)
  /\ \E page_num \in {calls[c].page + 1} :
       IF calls[c].bank = "BBL"
       THEN \E parsed \in {bbl_parse_page_from(calls[c].pages[page_num], page_num, 0,
                                                calls[c].prev_balance, <<>>)} :
              calls' = [calls EXCEPT ![c] =
                          [@ EXCEPT !.page = page_num,
                                    !.prev_balance = parsed.prev_balance,
                                    !.transactions = @ \o parsed.txs]]
       ELSE calls' = [calls EXCEPT ![c] =
                        [@ EXCEPT !.page = page_num,
                                  !.lines_info = @ \o lines_info_of(calls[c].pages[page_num],
                                                                     page_num)]]
  /\ pages_read' = pages_read + 1
  /\ UNCHANGED <<analyzeVars, outcome, parseVars, doc, password, serviceVars>>

\* after the page loop: BBL returns all_transactions, SCB runs
\* _extract_transactions_from_lines over the collected lines
end_extract(c) ==
  /\ calls[c].phase = "open" /\ calls[c].page = Len(calls[c].pages)
  /\ calls' = [calls EXCEPT ![c] =
                [@ EXCEPT !.phase = "returned",
                          !.transactions =
                             IF calls[c].bank = "BBL" THEN @
                             ELSE scb_extract_from(calls[c].lines_info, 0,
                                                   initial_prev_balance(calls, c), <<>>)]]
  /\ UNCHANGED <<analyzeVars, outcome, parseVars, doc, password, pages_read, serviceVars>>

NextDocuments == \E c \in Calls : begin_extract(c) \/ read_page(c) \/ end_extract(c)

SpecDocuments == InitDocuments /\ [][NextDocuments]_vars

(***************************************************************************)
(* AnalyzeStatementUseCase.execute                                         *)
(***************************************************************************)
\* the collaborators execute calls; each either works or raises
Collaborators ==
  {"extract", "to_csv", "mask", "analyze", "upload", "download",
   "save_analysis", "save_audit_log"}

\* one execute() call: database is whether an adapter was injected,
\* failing the collaborators that raise, called the calls made so far
NewExecution(adapter, upload_to_storage, failing) ==
  [database |-> adapter, upload_to_storage |-> upload_to_storage,
   failing |-> failing, pc |-> "extract", called |-> <<>>,
   pdf_storage_url |-> None, response |-> Pending]

InitUseCase ==
  /\ \E adapter \in BOOLEAN : \E upload_to_storage \in BOOLEAN :
       \E failing \in SUBSET Collaborators :
         use_case = NewExecution(adapter, upload_to_storage, failing)
  /\ NoDependencies
  /\ outcome = Pending
  /\ NoAnalysis
  /\ NoParse
  /\ NoDocument

\* a call of a collaborator whose exception execute does not catch
uncaught_call(name, next_pc) ==
  use_case' = [use_case EXCEPT
                 !.called = Append(@, name),
                 !.pc = IF name \in use_case.failing THEN "done" ELSE next_pc,
                 !.response = IF name \in use_case.failing THEN Raised(name) ELSE @]

\* step 1: self.pdf_extractor.extract(pdf_path, password)
uc_extract ==
  /\ use_case # <<>> /\ use_case.pc = "extract"
  /\ uncaught_call("extract", "to_csv")
  /\ UNCHANGED <<analyzeVars, outcome, parseVars, docVars, database>>

\* step 1.1: statement.to_csv inside try / except Exception
uc_export_csv ==
  /\ use_case # <<>> /\ use_case.pc = "to_csv"
  /\ use_case' = [use_case EXCEPT !.called = Append(@, "to_csv"), !.pc = "mask"]
  /\ UNCHANGED <<analyzeVars, outcome, parseVars, docVars, database>>

\* step 2: self.data_masker.mask(statement)
uc_mask ==
  /\ use_case # <<>> /\ use_case.pc = "mask"
  /\ uncaught_call("mask", "analyze")
  /\ UNCHANGED <<analyzeVars, outcome, parseVars, docVars, database>>

\* step 3: self.salary_analyzer.analyze(masked_statement, ...)
uc_analyze ==
  /\ use_case # <<>> /\ use_case.pc = "analyze"
  /\ uncaught_call("analyze", "upload")
  /\ UNCHANGED <<analyzeVars, outcome, parseVars, docVars, database>>

\* the storage calls of step 4: download follows a successful upload
upload_calls(failing) ==
  IF "upload" \in failing THEN <<"upload">> ELSE <<"upload", "download">>

\* step 4: upload and verifying download inside try / except Exception; a
\* failure leaves its message in pdf_storage_url
uc_upload ==
  /\ use_case # <<>> /\ use_case.pc = "upload"
  /\ IF use_case.upload_to_storage
     THEN use_case' = [use_case EXCEPT
                         !.called = @ \o upload_calls(use_case.failing),
                         !.pdf_storage_url =
                            IF use_case.failing \cap {"upload", "download"} = {}
                            THEN "url" ELSE "Upload failed",
                         !.pc = "save"]
     ELSE use_case' = [use_case EXCEPT !.pc = "save"]
  /\ UNCHANGED <<analyzeVars, outcome, parseVars, docVars, database>>

\* the database calls of step 5 with an adapter: save_analysis, then the
\* success audit log; when either raises, the except branch tries an error
\* audit log and swallows its exception
save_calls_audit_first(failing) ==
  IF "save_audit_log" \in failing
  THEN <<"save_audit_log", "save_audit_log">>
  ELSE IF "save_analysis" \in failing
       THEN <<"save_audit_log", "save_analysis", "save_audit_log">>
       ELSE <<"save_audit_log", "save_analysis">>

save_calls(failing) ==
  IF "save_analysis" \in failing
  THEN <<"save_analysis", "save_audit_log">>
  ELSE IF "save_audit_log" \in failing
       THEN <<"save_analysis", "save_audit_log", "save_audit_log">>
       ELSE <<"save_analysis", "save_audit_log">>

\* step 5: if self.database: ... else: skip
uc_save ==
  /\ use_case # <<>> /\ use_case.pc = "save"
  /\ use_case' = [use_case EXCEPT
                    !.called = IF use_case.database
                               THEN @ \o save_calls(use_case.failing) ELSE @,
                    !.pc = "respond"]
  /\ UNCHANGED <<analyzeVars, outcome, parseVars, docVars, database>>

\* "database_saved": self.database is not None
database_saved(adapter) == adapter

\* step 7: the response dictionary
uc_respond ==
  /\ use_case # <<>> /\ use_case.pc = "respond"
  /\ use_case' = [use_case EXCEPT
                    !.response = Returned([success |-> TRUE,
                                           pdf_storage_url |-> use_case.pdf_storage_url,
                                           database_saved |-> database_saved(use_case.database)]),
                    !.pc = "done"]
  /\ UNCHANGED <<analyzeVars, outcome, parseVars, docVars, database>>

NextUseCase ==
  uc_extract \/ uc_export_csv \/ uc_mask \/ uc_analyze \/ uc_upload \/ uc_save \/ uc_respond

SpecUseCase == InitUseCase /\ [][NextUseCase]_vars

(***************************************************************************)
(* dependencies.get_database                                               *)
(***************************************************************************)
\* the number of get_database calls made by concurrent request handlers
MaxTasks == 4
Tasks == 1..MaxTasks

\* PostgresDatabase.__init__: self.pool = None
NewPostgresDatabase == [pool |-> FALSE]

\* a handler that has not called get_database yet
NewTask == [pc |-> "start", pool_at_return |-> FALSE, error |-> None]

\* _database_instance = None, and no call in progress
InitDependencies ==
  /\ database = [instance |-> NoValue, tasks |-> [t \in Tasks |-> NewTask]]
  /\ NoUseCase
  /\ outcome = Pending
  /\ NoAnalysis
  /\ NoParse
  /\ NoDocument

\* the global after the `if _database_instance is None` branch has created
\* the adapter
instance_after_check(instance) ==
  IF instance = NoValue THEN Some(NewPostgresDatabase) ELSE instance

\* get_database up to its first suspension: with no instance it stores a new
\* adapter in the global and waits in connect() for asyncpg.create_pool; with
\* an instance it returns it as it is
get_database(t) ==
  /\ database # <<>> /\ database.tasks[t].pc = "start"
  /\ database' =
       IF database.instance = NoValue
       THEN [database EXCEPT !.instance = instance_after_check(database.instance),
                             !.tasks[t].pc = "connecting"]
       ELSE [database EXCEPT !.tasks[t].pc = "returned",
                             !.tasks[t].pool_at_return = Val(database.instance).pool]
  /\ UNCHANGED <<analyzeVars, outcome, parseVars, docVars, use_case>>

\* connect() resumes: create_pool gave a pool, which connect stores before
\* get_database returns the instance, or it raised, which get_database
\* passes on with the global left as it is
connect(t) ==
  /\ database # <<>> /\ database.tasks[t].pc = "connecting"
  /\ \/ database' = [database EXCEPT !.instance = Some([pool |-> TRUE]),
                                     !.tasks[t].pc = "returned",
                                     !.tasks[t].pool_at_return = TRUE]
     \/ database' = [database EXCEPT !.tasks[t].pc = "raised",
                                     !.tasks[t].error = "create_pool failed"]
  /\ UNCHANGED <<analyzeVars, outcome, parseVars, docVars, use_case>>

\* save_analysis on the instance a call returned: RuntimeError when
\* self.pool is None
save_analysis(t) ==
  /\ database # <<>> /\ database.tasks[t].pc = "returned"
  /\ database' =
       IF Val(database.instance).pool
       THEN [database EXCEPT !.tasks[t].pc = "saved"]
       ELSE [database EXCEPT !.tasks[t].pc = "save_failed",
                             !.tasks[t].error = "Database not connected. Call connect() first."]
  /\ UNCHANGED <<analyzeVars, outcome, parseVars, docVars, use_case>>

NextDependencies == \E t \in Tasks : get_database(t) \/ connect(t) \/ save_analysis(t)

SpecDependencies == InitDependencies /\ [][NextDependencies]_vars

(***************************************************************************)
(* Properties of analyze                                                   *)
(***************************************************************************)
HasResult == outcome.kind = "returned"
R == outcome.value
ExpectedSupplied == expected_gross # NoValue
\* what the salaried detection finds on the statement being analysed
Detection == detect_monthly_salary_net(get_credit_transactions(statement), employer)
IsInsufficientReason(reason) == reason = ReasonInsufficient(R.months_detected)
IsMismatchReason(reason) ==
  /\ Len(reason) = 7
  /\ reason[1] \in {"Salary mismatch: detected", "Income mismatch: detected"}
  /\ reason[2] = R.detected_amount
  /\ reason[4] = Val(R.expected_salary)

\* C1 as stated: every result with months_detected < 6 is rejected with the
\* insufficient-months reason
C1_Original ==
  HasResult /\ R.months_detected < 6
    => ~R.approved /\ IsInsufficientReason(R.rejection_reason)

\* C1 (amended): every result with months_detected < 6 is rejected, whatever
\* the confidence and whether or not expected_gross was supplied; the reason
\* is the insufficient-months reason, except on the two early returns that
\* report months_detected = 0 (salaried: no recurring group and no non-zero
\* expected_gross; self-employed: no dated credit), which keep their own reason
C1_InsufficientMonths ==
  HasResult /\ R.months_detected < 6
    => /\ ~R.approved
       /\ \/ IsInsufficientReason(R.rejection_reason)
          \/ /\ R.months_detected = 0
             /\ R.detected_amount = 0
             /\ \/ /\ R.income_type = "SALARIED"
                   /\ ~Detection.found
                   /\ ~(ExpectedSupplied /\ Val(expected_gross) # 0)
                   /\ R.rejection_reason = ReasonNoPattern
                \/ /\ R.income_type = "SELF_EMPLOYED"
                   /\ R.rejection_reason = ReasonNoDated

\* a well-formed pattern of exactly 5 months, high confidence, rejected
C1_Witness ==
  /\ HasResult
  /\ R.income_type = "SALARIED"
  /\ R.months_detected = 5
  /\ R.confidence = "high"
  /\ ~R.approved
  /\ IsInsufficientReason(R.rejection_reason)

\* C2 as stated: with months_detected >= 6 and expected_gross supplied the
\* call yields a result, approved exactly when the detected amount is within
\* 5,000 THB of the expected figure, and a rejection names both figures and
\* the percentage difference
MonthsOnInput ==
  IF income_type = "SELF_EMPLOYED"
  THEN LET c == SelectSeq(get_credit_transactions(statement),
                  LAMBDA t : ~HasSummaryMarker(t.description) /\ SelfEmployedMonthKey(t.date) # <<>>)
       IN Cardinality({SelfEmployedMonthKey(c[k].date) : k \in 1..Len(c)})
  ELSE IF Detection.found THEN Detection.months_detected ELSE 0

C2_Original ==
  outcome.kind # "pending" /\ ExpectedSupplied /\ MonthsOnInput >= 6
    => /\ HasResult
       /\ R.approved <=> Abs(R.detected_amount - Val(expected_gross)) < THB(5000)
       /\ ~R.approved => IsMismatchReason(R.rejection_reason)

\* C3: with months_detected >= 6 and no expected_gross, approved holds exactly
\* when confidence is high or medium, and a low confidence is rejected with
\* the low-confidence reason
C3_ConfidenceApproval ==
  HasResult /\ R.months_detected >= 6 /\ ~ExpectedSupplied
    => /\ R.approved <=> R.confidence \in {"high", "medium"}
       /\ R.confidence = "low" => ~R.approved /\ R.rejection_reason = ReasonLowConfidence

C3_Witness ==
  /\ HasResult
  /\ R.months_detected >= 6
  /\ ~ExpectedSupplied
  /\ R.confidence = "low"
  /\ ~R.approved
  /\ R.rejection_reason = ReasonLowConfidence

\* C4: every returned SalaryAnalysis has a non-empty rejection_reason when it
\* is not approved and no rejection_reason when it is approved
C4_ReasonIffRejected ==
  HasResult => /\ ~R.approved => R.rejection_reason # NoReason
               /\ R.approved => R.rejection_reason = NoReason

C4_Witness ==
  /\ HasResult
  /\ R.months_detected >= 6
  /\ ~R.approved
  /\ R.rejection_reason = ReasonLowConfidence

\* C5 as stated: when no source group qualifies, the salaried path returns
\* detected_amount = 0, confidence low, approved false and a reason, whether
\* or not expected_gross was supplied
C5_Original ==
  outcome.kind # "pending" /\ income_type # "SELF_EMPLOYED" /\ ~Detection.found
    => /\ HasResult
       /\ R.detected_amount = 0
       /\ R.confidence = "low"
       /\ ~R.approved
       /\ R.rejection_reason # NoReason

(***************************************************************************)
(* Properties of the extractors                                            *)
(***************************************************************************)
\* what later stages assume of a Transaction
EmittedWellFormed(tx) ==
  /\ tx.date # <<>>
  /\ tx.amount # NoValue
  /\ Val(tx.amount) > 0
  /\ tx.is_credit \in BOOLEAN

\* C6 as stated: every Transaction emitted by any of the parsers has a date,
\* a non-null amount strictly greater than 0 and a boolean is_credit
C6_Original == \A k \in 1..Len(txs) : EmittedWellFormed(txs[k])

\* the first date line after the block that starts at line k, Len(lines) if
\* there is none
NextDateLine(k) == ScanTo(lines, k + 1, KBANK_DATE_RE)

\* the lines k+1 .. d-1 hold a balance line, later a transaction-type line
\* and the amount line right after it
BlockComplete(k, d) ==
  \E b \in (k + 1)..(d - 1) : \E t \in (b + 1)..(d - 2) :
    /\ KBANK_MONEY_RE(At(lines, b))
    /\ At(lines, t) \in TX_TYPE_KEYWORDS_ALL
    /\ KBANK_MONEY_RE(At(lines, t + 1))

\* the scan loop stands on the date line of a block that the next date line
\* cuts short
BlockInterrupted ==
  /\ parser = "KBANK" /\ phase = "scanning"
  /\ KBANK_DATE_RE(At(lines, i))
  /\ NextDateLine(i) < Len(lines)
  /\ ~BlockComplete(i, NextDateLine(i))

\* C7 as stated: when a new date line comes before the balance, type or
\* amount line of the block in progress, the KBank parsers emit nothing for
\* that block and resume at the new date line
C7_Original == [][BlockInterrupted => txs' = txs /\ i' = NextDateLine(i)]_vars

\* the pseudo-blocks: KBank [date, money, ยอดยกมา / ยอดยกไป], BBL
\* "<date> B/F" then a money line, SCB BALANCE BROUGHT FORWARD then (after
\* blank lines) a money line
KBankCarryForwardAt(k) ==
  /\ k + 2 < Len(lines)
  /\ KBANK_DATE_RE(At(lines, k))
  /\ KBANK_MONEY_RE(At(lines, k + 1))
  /\ At(lines, k + 2) \in {"YOT YOK MA", "YOT YOK PAI"}
BBLBroughtForwardAt(k) ==
  /\ k + 1 < Len(lines)
  /\ At(lines, k) = "01/08/25 B/F"
  /\ BBL_MONEY_RE(At(lines, k + 1))
SCBBroughtForwardAt(k, m) ==
  /\ m < Len(lines)
  /\ is_balance_brought_forward(At(lines, k))
  /\ \A j \in (k + 1)..(m - 1) : At(lines, j) = ""
  /\ SCB_MONEY_RE(At(lines, m))

\* no emitted Transaction starts on a pseudo-block
NoPseudoTransaction ==
  \A k \in 1..Len(txs) :
    /\ parser = "KBANK" => ~KBankCarryForwardAt(txs[k].line_index)
    /\ parser = "BBL" => ~BBLBroughtForwardAt(txs[k].line_index)
    /\ parser = "SCB" => ~is_balance_brought_forward(At(lines, txs[k].line_index))

\* the pass of the loop that stands on a pseudo-block emits nothing, takes
\* the stated balance (BBL, SCB) and leaves the cursor on the line after it
\* (the KBank table variant: somewhere after it, not beyond the next date)
SkipsPseudoBlock ==
  /\ parser = "KBANK" /\ phase = "scanning" /\ ~is_table_format(lines) /\ KBankCarryForwardAt(i)
       => txs' = txs /\ i' = i + 3
  /\ parser = "KBANK" /\ phase = "scanning" /\ is_table_format(lines) /\ KBankCarryForwardAt(i)
       => txs' = txs /\ i' >= i + 3 /\ i' <= NextDateLine(i)
  /\ parser = "BBL" /\ phase = "scanning" /\ BBLBroughtForwardAt(i)
       => txs' = txs /\ i' = i + 2 /\ prev_balance' = Some(parse_money(At(lines, i + 1)))
  /\ \A m \in (i + 1)..(i + 2) :
       parser = "SCB" /\ phase = "scanning" /\ SCBBroughtForwardAt(i, m)
         => txs' = txs /\ i' = m + 1 /\ prev_balance' = Some(parse_money(At(lines, m)))

KTBConfirmed(k) == k + 1 < Len(lines) /\ At(lines, k + 1) \in KTB_CodeLines
KTBAmountAt(k) == k + 3 < Len(lines) /\ KTB_MONEY_RE(At(lines, k + 3))

\* every emitted Transaction starts on a confirmed date line with a money
\* line at offset 3
KTBOnlyConfirmed ==
  parser = "KTB" =>
    \A k \in 1..Len(txs) :
      /\ KTB_DATE_RE(At(lines, txs[k].line_index))
      /\ KTBConfirmed(txs[k].line_index)
      /\ KTBAmountAt(txs[k].line_index)

\* a pass of the KTB loop emits only on a confirmed date line with a money
\* line at offset 3, and moves on by one line from a date line it rejects
KTBRejectsHeaderDates ==
  parser = "KTB" /\ phase = "scanning" =>
    /\ txs' # txs => KTB_DATE_RE(At(lines, i)) /\ KTBConfirmed(i) /\ KTBAmountAt(i)
    /\ KTB_DATE_RE(At(lines, i)) /\ ~KTBConfirmed(i) => txs' = txs
    /\ KTB_DATE_RE(At(lines, i)) /\ txs' = txs => i' = i + 1

\* C9: the KTB parser emits a Transaction for a date line only if the next
\* line has a parenthesized code and the line at offset 3 is money; a header
\* date yields nothing, and after a rejected date the scan advances by one
C9_ConfirmedDates == []KTBOnlyConfirmed /\ [][KTBRejectsHeaderDates]_vars

\* a header date was passed over and a later block was emitted
C9_Witness ==
  /\ parser = "KTB" /\ phase = "returned"
  /\ \E k \in 1..Len(txs) : \E h \in 0..(txs[k].line_index - 1) :
       KTB_DATE_RE(At(lines, h)) /\ ~KTBConfirmed(h)

(***************************************************************************)
(* Properties of the detector                                              *)
(***************************************************************************)
RuleOrder == <<"SCB", "KTB", "KBANK", "BBL", "TMB">>
RuleMatches(bank, t) ==
  CASE bank = "SCB" -> scb_rule(t)
    [] bank = "KTB" -> ktb_rule(t)
    [] bank = "KBANK" -> kbank_rule(t)
    [] bank = "BBL" -> bbl_rule(t)
    [] bank = "TMB" -> tmb_rule(t)

\* the text detect_bank gets to see: the first two pages of a readable
\* document, nothing of one it could not open
SampleText ==
  IF Readable THEN SubSeq(doc.pages, 1, IF Len(doc.pages) < 2 THEN Len(doc.pages) ELSE 2)
  ELSE <<>>

PipelineEnded == outcome.kind \in {"raised", "extracted"}
NoPasswordSupplied == doc.is_encrypted /\ password \in {None, ""}
WrongPasswordSupplied == doc.is_encrypted /\ password \notin {None, "", UserPassword}
IsPasswordRequired(e) ==
  \/ e = "ValueError: PDF is encrypted, password required"
  \/ \E extractor \in {"KTB", "KBANK", "TMB", "SCB", "BBL"} : e = PasswordRequiredError(extractor)

\* C11 as stated: for an encrypted PDF the pipeline ends with the
\* password-required error when no password is supplied and with the
\* wrong-password error when the password does not authenticate, in both
\* cases before any page text is read and with no Transaction produced
C11_Original ==
  PipelineEnded =>
    /\ NoPasswordSupplied =>
          outcome.kind = "raised" /\ IsPasswordRequired(outcome.error) /\ pages_read = 0
    /\ WrongPasswordSupplied =>
          outcome.kind = "raised" /\ outcome.error = WrongPasswordError /\ pages_read = 0

(***************************************************************************)
(* Properties of the tax model                                             *)
(***************************************************************************)
\* C12 as stated: for every monthly gross G in [15,000, 500,000] THB,
\* _gross_from_net(net(G)) with pvd_rate = 0 and extra_deductions = 0 is
\* within 10 THB of G
C12_Original ==
  tax_call.fn = "gross_from_net" /\ tax_result # NoValue
    => Abs(Val(tax_result) - tax_call.arg) <= THB(10)

\* C13: with pvd_rate = 0 and extra_deductions = 0 the monthly net is
\* non-decreasing in the monthly gross: raising a gross G by a satang, a baht
\* or 1,000 THB never lowers net(G), and net(G) <= net(G2) for every larger
\* gross G2 of the grid, across the bracket boundaries, the social-security
\* cap and the employment-expense cap
C13_NetMonotone ==
  tax_call.fn = "calculated_net" /\ tax_result # NoValue =>
    /\ \A d \in GrossDeltas : Val(tax_result) <= calculated_net(tax_call.arg + d, 0, 0)
    /\ \A G2 \in GrossGrid : tax_call.arg <= G2 => Val(tax_result) <= calculated_net(G2, 0, 0)

\* the net of a gross one satang below a bracket boundary was computed, and
\* the tax differs on the two sides of the boundary
C13_Witness ==
  /\ tax_call.fn = "calculated_net" /\ tax_result # NoValue
  /\ \E k \in 2..Len(TAX_BRACKETS) :
       /\ tax_call.arg = (TAX_BRACKETS[k][1] + PERSONAL_ALLOWANCE + EMPLOYMENT_EXPENSE_MAX) \div 12 - 1
       /\ Val(tax_result) < tax_call.arg - SSO_MAX
       /\ Val(tax_result) < calculated_net(tax_call.arg + THB(1), 0, 0)

\* the portion of a taxable income that lies inside bracket k
PortionIn(k, taxable) == Max(0, Min(taxable, TAX_BRACKETS[k][2]) - TAX_BRACKETS[k][1])
RECURSIVE MarginalTaxUpTo(_, _)
MarginalTaxUpTo(k, taxable) ==
  IF k = 0 THEN 0
  ELSE MarginalTaxUpTo(k - 1, taxable) + MulTwentieth(PortionIn(k, taxable), TAX_BRACKETS[k][3])

\* C14: _calculate_tax(taxable) is the sum over the eight brackets of the
\* bracket's rate times the portion of the income inside the bracket, and is
\* 0 for a taxable income of at most 150,000 THB
C14_MarginalTax ==
  tax_call.fn = "calculate_tax" /\ tax_result # NoValue =>
    /\ Val(tax_result) = MarginalTaxUpTo(Len(TAX_BRACKETS), tax_call.arg)
    /\ tax_call.arg <= THB(150000) => Val(tax_result) = 0

\* the tax of an income that reaches into the fourth bracket or beyond
C14_Witness ==
  /\ tax_call.fn = "calculate_tax" /\ tax_result # NoValue
  /\ tax_call.arg > TAX_BRACKETS[4][1]
  /\ Val(tax_result) > MulTwentieth(PortionIn(2, tax_call.arg), 1) + MulTwentieth(PortionIn(3, tax_call.arg), 2)

(***************************************************************************)
(* Properties of the salary detection                                      *)
(***************************************************************************)
\* the sources with at least MIN_MONTHS_REQUIRED credits
QualifyingSources(credits) ==
  {src \in {normalize_source(credits[k]) : k \in 1..Len(credits)} :
     Cardinality({k \in 1..Len(credits) : normalize_source(credits[k]) = src})
       >= MIN_MONTHS_REQUIRED}

\* the position of the first credit of a source
FirstIndex(credits, src) ==
  CHOOSE k \in 1..Len(credits) :
    /\ normalize_source(credits[k]) = src
    /\ \A j \in 1..(k - 1) : normalize_source(credits[j]) # src

SalariedCall == outcome # Pending /\ income_type # "SELF_EMPLOYED"

\* C15: _detect_monthly_salary_net reports no pattern exactly when no source
\* has at least 3 credits; otherwise its group is one of the sources with at
\* least 3 credits, no such source scores higher, and every such source with
\* the same score was first encountered later in the credit list
C15_BestGroup ==
  SalariedCall =>
    \E credits \in {get_credit_transactions(statement)} :
      \E detected \in {detect_monthly_salary_net(credits, employer)} :
        \E qualifying \in {QualifyingSources(credits)} :
          /\ detected.found <=> qualifying # {}
          /\ ~detected.found /\ (expected_gross = NoValue \/ Val(expected_gross) = 0)
               => /\ outcome.kind = "returned"
                  /\ outcome.value.rejection_reason = ReasonNoPattern
          /\ detected.found =>
               /\ detected.source \in qualifying
               /\ detected.transactions = group_by_source(credits, detected.source)
               /\ detected.score = score_salary_group(detected.transactions, employer)
               /\ \A src \in qualifying :
                    \E score \in {score_salary_group(group_by_source(credits, src), employer)} :
                      /\ score <= detected.score
                      /\ score = detected.score
                           => FirstIndex(credits, detected.source) <= FirstIndex(credits, src)
               /\ outcome.kind = "returned" =>
                    outcome.value.months_detected = Cardinality(UniqueMonths(detected.transactions))

\* an analysed statement with two sources of at least 3 credits and the same
\* score, of which the first encountered one was kept
C15_Witness ==
  /\ SalariedCall /\ outcome.kind = "returned"
  /\ \E credits \in {get_credit_transactions(statement)} :
       \E detected \in {detect_monthly_salary_net(credits, employer)} :
         /\ detected.found
         /\ \E src \in QualifyingSources(credits) \ {detected.source} :
              /\ score_salary_group(group_by_source(credits, src), employer) = detected.score
              /\ FirstIndex(credits, detected.source) < FirstIndex(credits, src)

\* the credits of the monthly payer, in statement order
SalaryCredits == SelectSeq(statement, LAMBDA t : t.payer = SalaryPayer)

ConfidenceTier(months, num, den) ==
  IF months >= 5 /\ num * 100 <= 3 * den THEN "high"
  ELSE IF months >= 3 /\ num * 100 <= 6 * den THEN "medium"
  ELSE "low"

\* the salaried path returned an analysis of a detected group
SalariedDetected ==
  /\ SalariedCall /\ outcome.kind = "returned"
  /\ detect_monthly_salary_net(get_credit_transactions(statement), employer).found

\* the confidence of the returned analysis is the tier of the detected
\* group, the distance to the median net being measured against Den(median)
ConfidenceFollows(Den(_)) ==
  SalariedDetected =>
    \E detected \in {detect_monthly_salary_net(get_credit_transactions(statement), employer)} :
      \E estimated_gross \in {gross_from_net(detected.monthly_net_median, pvd_rate,
                                              extra_deductions)} :
        \E net_again \in {calculated_net(estimated_gross, pvd_rate, extra_deductions)} :
          outcome.value.confidence =
            ConfidenceTier(detected.months_detected,
                           Abs(net_again - detected.monthly_net_median),
                           Den(detected.monthly_net_median))

MedianNet(monthly_net) == monthly_net
MedianNetFloored(monthly_net) == Max(THB(1), monthly_net)

\* C17 as stated: confidence is high iff months_detected >= 5 and
\* |recomputed net - median net| / median net <= 3%, otherwise medium iff
\* months_detected >= 3 and the ratio <= 6%, otherwise low
C17_Original == ConfidenceFollows(MedianNet)

\* C17 amended: the same tiers with the ratio taken against
\* max(1 THB, median net)
C17_ConfidenceTiers == ConfidenceFollows(MedianNetFloored)

\* a group of at least 5 months with a median net below 1 THB whose returned
\* confidence is high
C17_Witness ==
  /\ SalariedDetected
  /\ \E detected \in {detect_monthly_salary_net(get_credit_transactions(statement), employer)} :
       /\ detected.monthly_net_median < THB(1)
       /\ detected.months_detected >= 5
       /\ outcome.value.confidence = "high"

(***************************************************************************)
(* Properties of the self-employed average                                 *)
(***************************************************************************)
\* a transaction that counts towards the self-employed average: a dated
\* credit that is not a summary row
Contributes(t) == t.is_credit /\ t.date # <<>> /\ t.description # DescSummary

\* the amount a transaction adds to the total
Contribution(t) == IF Contributes(t) THEN t.amount ELSE 0

ContributingMonths ==
  {SelfEmployedMonthKey(statement[k].date) :
     k \in {j \in 1..Len(statement) : Contributes(statement[j])}}

SelfEmployedReturned ==
  outcome.kind = "returned" /\ income_type = "SELF_EMPLOYED"

RECURSIVE BBLAfterPages(_, _)
BBLAfterPages(pages, k) ==
  IF k = 0 THEN [txs |-> <<>>, prev_balance |-> NoValue]
  ELSE LET before == BBLAfterPages(pages, k - 1)
           parsed == bbl_parse_page_from(pages[k], k, 0, before.prev_balance, <<>>)
       IN [txs |-> before.txs \o parsed.txs, prev_balance |-> parsed.prev_balance]

\* SCB: the lines of the first k pages with their page and line numbers
RECURSIVE SCBLinesOfPages(_, _)
SCBLinesOfPages(pages, k) ==
  IF k = 0 THEN <<>>
  ELSE SCBLinesOfPages(pages, k - 1) \o lines_info_of(pages[k], k)

\* the Transaction list of a document parsed on its own
ParsedAlone(bank, pages) ==
  IF bank = "BBL" THEN BBLAfterPages(pages, Len(pages)).txs
  ELSE scb_extract_from(SCBLinesOfPages(pages, Len(pages)), 0, NoValue, <<>>)

\* C19: whatever the other call on the extractor object has done or is
\* doing, a call returns the Transaction list of its document parsed on its
\* own, so two calls on the same document return the same list; the running
\* balance of a BBL call is unknown before its first page and at every page
\* is the balance the pages before left, and SCB scans the lines of all
\* pages in one pass from an unknown balance
C19_DocumentOnly ==
  /\ \A c \in Calls :
       /\ calls[c].phase = "returned" =>
            calls[c].transactions = ParsedAlone(calls[c].bank, calls[c].pages)
       /\ calls[c].bank = "BBL" /\ calls[c].phase # "new" =>
            /\ calls[c].page = 0 => calls[c].prev_balance = NoValue
            /\ calls[c].prev_balance = BBLAfterPages(calls[c].pages, calls[c].page).prev_balance
            /\ calls[c].transactions = BBLAfterPages(calls[c].pages, calls[c].page).txs
       /\ calls[c].bank = "SCB" /\ calls[c].phase = "open" =>
            calls[c].lines_info = SCBLinesOfPages(calls[c].pages, calls[c].page)
  /\ \A c, d \in Calls :
       /\ calls[c].phase = "returned" /\ calls[d].phase = "returned"
       /\ calls[c].bank = calls[d].bank /\ calls[c].pages = calls[d].pages
       => calls[c].transactions = calls[d].transactions

\* the second page of a parsed document, parsed from an unknown balance
SecondPageAlone(c) ==
  IF calls[c].bank = "BBL"
  THEN bbl_parse_page_from(calls[c].pages[2], 2, 0, NoValue, <<>>).txs
  ELSE scb_extract_from(lines_info_of(calls[c].pages[2], 2), 0, NoValue, <<>>)

\* a call returned while the other call, on another document of the same
\* bank, was between its pages with a balance of its own or with lines
\* collected; the returned document has a transaction on its second page
\* that the page parsed from an unknown balance would not give
C19_Witness ==
  \E c \in Calls : \E d \in Calls \ {c} :
    /\ calls[c].phase = "returned" /\ Len(calls[c].pages) = 2
    /\ \E t \in {calls[c].transactions[k] : k \in 1..Len(calls[c].transactions)} :
         /\ t.page = 2
         /\ \A k \in 1..Len(SecondPageAlone(c)) : SecondPageAlone(c)[k] # t
    /\ calls[d].phase = "open" /\ calls[d].page >= 1
    /\ calls[d].bank = calls[c].bank /\ calls[d].pages # calls[c].pages
    /\ calls[d].bank = "BBL" =>
         calls[d].prev_balance \notin {NoValue, calls[c].prev_balance}
    /\ calls[d].bank = "SCB" => calls[d].lines_info # <<>>

(***************************************************************************)
(* Properties of the BBL credit flag                                       *)
(***************************************************************************)
FlagDecided == credit_flag # <<>> /\ credit_flag.result # NoValue

\* new_balance - old_balance of a decided call with a known old balance
FlagDelta == credit_flag.new_balance - Val(credit_flag.old_balance)

\* the previous balance is known and the move of the balance is the amount
\* to within 0.01 THB (1 satang)
DeltaMatches ==
  credit_flag.old_balance # NoValue /\ Abs(Abs(FlagDelta) - credit_flag.amount) <= 1

\* C20 as stated: with a known previous balance, a move of the balance within
\* 0.01 of the amount and not zero, the flag is the sign of the move (credit
\* when the balance rose, debit when it fell); with an unknown previous
\* balance or a move that does not match the amount, the flag is credit
\* exactly when the description has a credit hint keyword
C20_Original ==
  FlagDecided =>
    /\ DeltaMatches /\ FlagDelta # 0 => Val(credit_flag.result) = (FlagDelta > 0)
    /\ ~DeltaMatches => Val(credit_flag.result) = HasCreditHint(credit_flag.desc_txt)

(***************************************************************************)
(* Properties of the emitted dates                                         *)
(***************************************************************************)
\* the Christian-era years of the statements (2568 is the Buddhist 2025)
GregorianYears == {"2024", "2025"}

\* DD/MM/YYYY with a 4-digit Christian-era year
IsGregorianDate(date) ==
  /\ Len(date) = 5
  /\ Len(date[1]) = 2 /\ date[2] = "/" /\ Len(date[3]) = 2 /\ date[4] = "/"
  /\ date[5] \in GregorianYears

\* C21 as stated: every Transaction emitted by any of the five parsers has
\* its date as DD/MM/YYYY with a 4-digit Christian-era year
C21_Original == \A k \in 1..Len(txs) : IsGregorianDate(txs[k].date)

(***************************************************************************)
(* Properties of AnalyzeStatementUseCase.execute                           *)
(***************************************************************************)
DatabaseCalls == {"save_analysis", "save_audit_log"}
IsDatabaseCall(name) == name \in DatabaseCalls

\* the positions in called at which execute called the collaborator
CallsOf(name) == {k \in 1..Len(use_case.called) : use_case.called[k] = name}

\* every call of earlier was made before every call of later
CalledBefore(earlier, later) ==
  \A a \in CallsOf(earlier) : \A b \in CallsOf(later) : a < b

ExecuteReturned == use_case # <<>> /\ use_case.response.kind = "returned"

\* C22: with a database adapter and no failing collaborator, a returned
\* execute has called save_analysis exactly once and then save_audit_log
\* exactly once, both after extract, mask and analyze, and answers
\* database_saved = true; before the analysis has completed no database call
\* has been made; without an adapter no database call is ever made and the
\* answer has database_saved = false
C22_DatabaseCalls ==
  use_case # <<>> =>
    /\ (use_case.database /\ use_case.failing = {}) =>
         /\ use_case.pc \in {"extract", "to_csv", "mask", "analyze", "upload", "save"}
              => SelectSeq(use_case.called, IsDatabaseCall) = <<>>
         /\ ExecuteReturned =>
              /\ SelectSeq(use_case.called, IsDatabaseCall)
                   = <<"save_analysis", "save_audit_log">>
              /\ \A done \in {"extract", "mask", "analyze"} :
                   /\ CallsOf(done) # {}
                   /\ \A call \in DatabaseCalls : CalledBefore(done, call)
              /\ use_case.response.value.database_saved = TRUE
    /\ ~use_case.database =>
         /\ SelectSeq(use_case.called, IsDatabaseCall) = <<>>
         /\ ExecuteReturned => use_case.response.value.database_saved = FALSE

\* an execute with an adapter and no failure has returned after both database calls
C22_Witness ==
  /\ ExecuteReturned
  /\ use_case.database /\ use_case.failing = {}
  /\ Cardinality(CallsOf("save_analysis")) = 1
  /\ Cardinality(CallsOf("save_audit_log")) = 1

(***************************************************************************)
(* Properties of the TTB parser                                            *)
(***************************************************************************)
\* a time line followed by a Thai-date line starts a block at cursor p
TTBBlockStart(p) ==
  /\ p + 1 < Len(lines)
  /\ TTB_TIME_RE(At(lines, p)) /\ THAI_DATE_RE(At(lines, p + 1))

\* the block started at p has no amount line before the next block start
TTBAbandoned(p) ==
  /\ TTBBlockStart(p)
  /\ \E q \in (p + 2)..(Len(lines) - 1) :
       /\ TTBBlockStart(q)
       /\ \A k \in (p + 2)..(q - 1) : ~TTB_MONEY_RE(At(lines, k))

\* C23 as stated: a block start with no amount line before the next block's
\* time and date lines emits nothing: no emitted transaction starts at such
\* a block
C23_Original ==
  parser = "TTB" => \A k \in 1..Len(txs) : ~TTBAbandoned(txs[k].line_index)

\* the scan has returned one transaction that carries the date of an
\* abandoned block, the time and date lines of the next block in its
\* description and the amount of the next block, and nothing for the next block
C23_Absorbed ==
  /\ parser = "TTB" /\ phase = "returned"
  /\ lines = <<"05:44", "30 K.Y. 68", "RAP NGOEN ON",
               "05:44", "1 T.K. 68", "RAP NGOEN ON", "-24,600.00", "100,421.94">>
  /\ Len(txs) = 1
  /\ txs[1].line_index = 0 /\ txs[1].date = thai_date_to_date_string("30 K.Y. 68")
  /\ txs[1].description = "RAP NGOEN ON 05:44 1 T.K. 68 RAP NGOEN ON"
  /\ txs[1].amount = Some(THB(24600))

(***************************************************************************)
(* Properties of the SCB credit flag                                       *)
(***************************************************************************)
\* the flag the stated rule gives: credit only when the previous balance is
\* known, the balance rose, and it rose by the amount to within 0.01 THB
\* (1 satang); debit otherwise
StatedSCBCredit(old_balance, balance_after, amount) ==
  /\ old_balance # NoValue
  /\ balance_after > Val(old_balance)
  /\ Abs((balance_after - Val(old_balance)) - amount) <= 1

\* the SCB parser emits a transaction in this step
SCBEmits == parser = "SCB" /\ Len(txs') = Len(txs) + 1

\* C24 as stated: every transaction the SCB parser emits carries the flag of
\* the stated rule, computed from the running balance before the block, the
\* balance of the block and its amount
C24_Original ==
  [][SCBEmits =>
       txs'[Len(txs')].is_credit
         = StatedSCBCredit(prev_balance, Val(prev_balance'), Val(txs'[Len(txs')].amount))]_vars

(***************************************************************************)
(* Properties of best_candidates                                           *)
(***************************************************************************)
\* sub keeps the order of whole: it is whole with some entries left out
RECURSIVE IsSubsequence(_, _)
IsSubsequence(sub, whole) ==
  IF sub = <<>> THEN TRUE
  ELSE IF whole = <<>> THEN FALSE
  ELSE IF Head(sub) = Head(whole) THEN IsSubsequence(Tail(sub), Tail(whole))
  ELSE IsSubsequence(sub, Tail(whole))

\* the candidate is a credit that contributed to the detected amount: a
\* member of the winning group on the salaried path, a dated credit that is
\* no summary row on the self-employed path
ContributedCandidate(t) ==
  /\ t.is_credit
  /\ IF R.income_type = "SELF_EMPLOYED" THEN Contributes(t)
     ELSE Detection.found /\ normalize_source(t) = Detection.source

\* C25 as stated: best_candidates has at most 10 entries, in statement order,
\* each a credit that contributed to the detected amount
C25_Original ==
  HasResult =>
    /\ Len(R.best_candidates) <= 10
    /\ IsSubsequence(R.best_candidates, statement)
    /\ \A k \in 1..Len(R.best_candidates) : ContributedCandidate(R.best_candidates[k])

(***************************************************************************)
(* Termination of the scan loops                                           *)
(***************************************************************************)
\* A scan loop runs inside one call of its parser: once started nothing
\* keeps it from making its next pass
SpecParseFair == SpecParse /\ WF_vars(NextParse)

\* C26: every pass of a scan loop moves the cursor forward, and every scan
\* loop comes to its end
C26_ScanTerminates ==
  /\ [][phase = "scanning" => i' > i]_vars
  /\ <>(phase = "returned")

\* a scan of one of the four parsers has ended behind the last line of a
\* page of several lines, after emitting a transaction
C26_Witness ==
  /\ parser \in {"KBANK", "KTB", "BBL", "TTB"}
  /\ phase = "returned"
  /\ Len(lines) > 1 /\ i >= Len(lines)
  /\ txs # <<>>

(***************************************************************************)
(* Properties of get_database                                              *)
(***************************************************************************)
\* the get_database call of task t has returned an instance
GotDatabase(t) == database.tasks[t].pc \in {"returned", "saved", "save_failed"}

\* C27 as stated: every instance get_database returns has its pool
\* established at the return, and no save_analysis on a returned instance
\* fails with 'Database not connected'
C27_Original ==
  database # <<>> =>
    \A t \in Tasks :
      /\ GotDatabase(t) => database.tasks[t].pool_at_return
      /\ database.tasks[t].pc # "save_failed"

(***************************************************************************)
(* Properties of the BBL running balance                                   *)
(***************************************************************************)
\* the BBL cursor is on a '<date> <description>' line followed by a money line
BBLDatedMoney ==
  /\ parser = "BBL" /\ phase = "scanning"
  /\ BBL_DATE_DESC_RE(At(lines, i))
  /\ i + 1 < Len(lines) /\ BBL_MONEY_RE(At(lines, i + 1))

\* the description of the line under the cursor starts with B/F
BBLOnBroughtForward ==
  BBL_DATE_DESC_RE(At(lines, i)) /\ StartsWithBF(DateDescGroups(At(lines, i))[2])

BBLEmits == Len(txs') = Len(txs) + 1

\* C28 as stated: a pass of the BBL loop changes the running balance only on
\* a B/F line or when it emits a transaction, and a pass on a
\* '<date> <description>' line followed by a money line either emits a
\* transaction or is on a B/F line
C28_Original ==
  [][/\ (parser = "BBL" /\ prev_balance' # prev_balance) => (BBLOnBroughtForward \/ BBLEmits)
     /\ BBLDatedMoney => (BBLEmits \/ BBLOnBroughtForward)]_vars

(***************************************************************************)
(* Properties of approved and matches_expected                             *)
(***************************************************************************)
\* SalaryAnalysis.matches_expected of an analysis with an expected salary:
\* the stored detected_amount is within 5,000 THB of it
matches_expected(analysis) ==
  Abs(analysis.detected_amount - Val(analysis.expected_salary)) < THB(5000)

\* C29 as stated: with expected_gross supplied, an approved analysis has
\* matches_expected = true, and a rejected one with months_detected >= 6 has
\* matches_expected = false
C29_Original ==
  HasResult /\ ExpectedSupplied =>
    /\ R.approved => matches_expected(R)
    /\ (R.months_detected >= 6 /\ ~R.approved) => ~matches_expected(R)

(***************************************************************************)
(* analyze and exceptions                                                  *)
(***************************************************************************)
\* C30 as stated: analyze never raises; a call that has ended has returned a
\* SalaryAnalysis, which is approved or carries a rejection reason
C30_Original ==
  outcome # Pending =>
    /\ outcome.kind = "returned"
    /\ R.approved \/ R.rejection_reason # NoReason

====
